---------------------------- MODULE Spec2Model ----------------------------
(***************************************************************************)
(* Workout-session target generation engine of metric_gain                 *)
(* (backend/app/routers/workout_sessions.py): the set-count formula, the   *)
(* weight projection, session creation with its three generation branches, *)
(* the read-time target refresher, the session/set CRUD endpoints and the  *)
(* mid-workout exercise mutations.                                         *)
(*                                                                         *)
(* Weights are kept in hundredths of a unit (10000 = 100.00), so that a    *)
(* logged weight with two decimals and the rounding to one decimal are     *)
(* both exact integers.                                                    *)
(***************************************************************************)
EXTENDS Integers, Sequences, FiniteSets, TLC

VARIABLES
    sessions,   \* rows of workout_sessions
    sets,       \* rows of workout_sets
    last,       \* the last API call: its name, arguments and HTTP result
    steps,      \* number of API calls made so far (also the wall clock)
    call,       \* the last direct call of a pure function (SpecPure only)
    tx,         \* the database transaction of the request in progress (SpecTx only)
    instances,  \* rows of mesocycle_instances
    inflight    \* requests that have read but not yet written (SpecConc only)

vars == <<sessions, sets, last, steps, call, tx, instances, inflight>>

---------------------------------------------------------------------------
(* Bounds of the model *)

MaxOps == 3         \* API calls per behaviour
MaxSessions == 2    \* session rows alive at once
MaxWeek == 4        \* largest week_number of a direct get_sets_for_week call

---------------------------------------------------------------------------
(* Values *)

\* Python None in a nullable column or an optional request field.
Null == -1

Max(a, b) == IF a >= b THEN a ELSE b

SetMax(S) == CHOOSE x \in S : \A y \in S : y <= x

SetMin(S) == CHOOSE x \in S : \A y \in S : x <= y

---------------------------------------------------------------------------
(* Set-count formula *)

STARTING_SETS == 1

BIG_MUSCLE_GROUPS == {"Chest", "Back", "Quadriceps", "Hamstrings", "Glutes"}

SMALL_MUSCLE_GROUPS == {"Shoulders", "Biceps", "Triceps", "Calves", "Core"}

\* math.ceil(n / d) for d > 0
CeilDiv(n, d) == IF n % d = 0 THEN n \div d ELSE (n \div d) + 1

\* The rates of the docstring (big 0.5, small 1) instead of those of the code
GrowthRateOfDocstring(muscle_group) ==
    IF muscle_group \in BIG_MUSCLE_GROUPS THEN <<1, 2>>
    ELSE IF muscle_group \in SMALL_MUSCLE_GROUPS THEN <<2, 2>>
    ELSE <<1, 2>>

\* growth_rate as a fraction <<numerator, denominator>>: 1.0 = 2/2, 1.5 = 3/2
GrowthRate(muscle_group) ==
    IF muscle_group \in BIG_MUSCLE_GROUPS THEN <<2, 2>>
    ELSE IF muscle_group \in SMALL_MUSCLE_GROUPS THEN <<3, 2>>
    ELSE <<2, 2>>

\* The deload test taken for the small groups only
GetSetsForWeekDeloadSmallOnly(muscle_group, week_number, total_weeks) ==
    IF total_weeks > 0 /\ week_number = total_weeks
       /\ muscle_group \in SMALL_MUSCLE_GROUPS
    THEN 1
    ELSE LET r == GrowthRate(muscle_group)
         IN  CeilDiv(week_number * r[1] + STARTING_SETS * r[2], r[2])

GetSetsForWeek(muscle_group, week_number, total_weeks) ==
    IF total_weeks > 0 /\ week_number = total_weeks
    THEN 1
    ELSE LET r == GrowthRate(muscle_group)
         IN  CeilDiv(week_number * r[1] + STARTING_SETS * r[2], r[2])

---------------------------------------------------------------------------
(* Weight projection *)

\* round(n / d) to the nearest integer, halves to even (Python's round)
RoundHalfEven(n, d) ==
    LET q == n \div d
        r == n % d
    IN  IF 2 * r < d THEN q
        ELSE IF 2 * r > d THEN q + 1
        ELSE IF q % 2 = 0 THEN q ELSE q + 1

\* round(x, 1) of x = n/4000 units, as hundredths (a multiple of 10)
Round1(n) == 10 * RoundHalfEven(n, 400)

\* create_workout_session: target_weight = None; if prev_set.weight > 0:
\* increase = max(w * 0.025, 2.5); target_weight = round(w + increase, 1).
\* In 1/4000 units w * 0.025 is w and 2.5 is 10000.
GenTargetWeightPercentOnly(w) ==
    IF w > 0 THEN Round1(40 * w + w) ELSE Null

GenTargetWeight(w) ==
    IF w > 0
    THEN LET increase == Max(w, 10000)
         IN  Round1(40 * w + increase)
    ELSE Null

\* A refresh that projects from the current target once there is one
RefreshTargetWeightCompounding(target_weight, w) ==
    IF w > 0
    THEN GenTargetWeight(IF target_weight = Null THEN w ELSE target_weight)
    ELSE target_weight

\* get_workout_session: if prev_set.weight > 0:
\* new_target = round(w + max(w * 0.025, 2.5), 1), else the target stays
RefreshTargetWeight(target_weight, w) ==
    IF w > 0 THEN Round1(40 * w + Max(w, 10000)) ELSE target_weight

---------------------------------------------------------------------------
(* Reference data owned by other routers: exercises and templates *)

\* exercises table: id -> muscle_group.  Id 9 has no row.
ExerciseTable == [i \in {1, 2, 3} |->
    CASE i = 1 -> "Chest"
      [] i = 2 -> "Biceps"
      [] i = 3 -> "Forearms"]

ExerciseIds == {1, 2, 3, 9}

ExerciseExists(exercise_id) == exercise_id \in DOMAIN ExerciseTable

\* An exercise without a row counted as a small muscle group
MuscleGroupOfMissingIsSmall(exercise_id) ==
    IF ExerciseExists(exercise_id) THEN ExerciseTable[exercise_id] ELSE "Biceps"

\* muscle_group = exercise.muscle_group if exercise else "Other"
MuscleGroupOf(exercise_id) ==
    IF ExerciseExists(exercise_id) THEN ExerciseTable[exercise_id] ELSE "Other"

\* workout_templates with their workout_exercises and mesocycle.weeks.
\* Template 3 has no row, template 4 has no exercises.
TemplateTable == [t \in {1, 2, 4} |->
    IF t = 4 THEN [weeks |-> 3, exercises |-> <<>>]
    ELSE IF t = 1
    THEN [weeks |-> 3,
          exercises |-> <<
            [exercise_id |-> 1, order_index |-> 0, target_sets |-> 3,
             target_reps_max |-> 12, starting_rir |-> 3],
            [exercise_id |-> 2, order_index |-> 1, target_sets |-> 4,
             target_reps_max |-> 10, starting_rir |-> 2] >>]
    ELSE [weeks |-> 4,
          exercises |-> <<
            [exercise_id |-> 9, order_index |-> 0, target_sets |-> 3,
             target_reps_max |-> 8, starting_rir |-> 1] >>]]

TemplateIds == {1, 2, 3, 4}

TemplateExists(template_id) == template_id \in DOMAIN TemplateTable

\* total_weeks = template.mesocycle.weeks if (template and template.mesocycle) else 0
TotalWeeks(template_id) ==
    IF TemplateExists(template_id) THEN TemplateTable[template_id].weeks ELSE 0

\* mesocycles (block templates): id -> owner and is_stock.  Id 9 has no row.
MesocycleTable == [m \in {1, 2, 3} |->
    CASE m = 1 -> [user_id |-> 1, is_stock |-> FALSE]
      [] m = 2 -> [user_id |-> 2, is_stock |-> TRUE]
      [] m = 3 -> [user_id |-> 2, is_stock |-> FALSE]]

MesocycleIds == {1, 2, 3, 9}

\* date.today()
Today == 1

Users == {1}

Instances == {1, 2}

Days == {1, 2}

\* week_number of the requests: template 1 runs 3 weeks, so week 3 is its deload
Weeks == {1, 2, 3}

---------------------------------------------------------------------------
(* Queries *)

SessionById(session_id) == CHOOSE s \in sessions : s.id = session_id

SessionExists(session_id, user_id) ==
    \E s \in sessions : s.id = session_id /\ s.user_id = user_id

SetsOf(rows, session_id) == {w \in rows : w.workout_session_id = session_id}

SetsOfExercise(rows, session_id, exercise_id) ==
    {w \in SetsOf(rows, session_id) : w.exercise_id = exercise_id}

NextSessionId == IF sessions = {} THEN 1 ELSE SetMax({s.id : s \in sessions}) + 1

NextSetId(rows) == IF rows = {} THEN 1 ELSE SetMax({w.id : w \in rows}) + 1

\* Rows with equal sort keys come back in an order the database chooses:
\* by ascending or by descending id.
Ties == {"asc", "desc"}

Before(a, b, tie) ==
    \/ a.order_index < b.order_index
    \/ /\ a.order_index = b.order_index
       /\ \/ a.set_number < b.set_number
          \/ /\ a.set_number = b.set_number
             /\ IF tie = "asc" THEN a.id < b.id ELSE a.id > b.id

\* .order_by(WorkoutSet.order_index, WorkoutSet.set_number).all()
RECURSIVE OrderedSets(_, _)
OrderedSets(rows, tie) ==
    IF rows = {} THEN <<>>
    ELSE LET m == CHOOSE x \in rows : \A y \in rows \ {x} : Before(x, y, tie)
         IN  <<m>> \o OrderedSets(rows \ {m}, tie)

\* Keys of the OrderedDict built by setdefault(exercise_id, []).append(row):
\* exercise ids in order of first appearance.
ExerciseOrder(seq) ==
    LET F[i \in 0..Len(seq)] ==
          IF i = 0 THEN <<>>
          ELSE IF \E j \in 1..Len(F[i - 1]) : F[i - 1][j] = seq[i].exercise_id
               THEN F[i - 1]
               ELSE Append(F[i - 1], seq[i].exercise_id)
    IN  F[Len(seq)]

\* The value of the OrderedDict for one exercise id.
ExerciseGroup(seq, exercise_id) ==
    SelectSeq(seq, LAMBDA w : w.exercise_id = exercise_id)

\* Positions of next((s for s in group if s.set_number == set_num), None)
MatchPositions(group, set_num) ==
    {i \in 1..Len(group) : group[i].set_number = set_num}

\* A previous-session query that ranks the smallest week first
PrevCandidatesEarliest(rows, instance_id, user_id, week_number, day_number) ==
    LET c == {s \in rows : /\ s.mesocycle_instance_id = instance_id
                           /\ s.user_id = user_id
                           /\ s.week_number < week_number
                           /\ s.day_number = day_number}
    IN  {s \in c : \A t \in c : t.week_number >= s.week_number}

\* Sessions the previous-session query ranks first: same instance, user and
\* day, smaller week, greatest week first.
PrevCandidates(rows, instance_id, user_id, week_number, day_number) ==
    LET c == {s \in rows : /\ s.mesocycle_instance_id = instance_id
                           /\ s.user_id = user_id
                           /\ s.week_number < week_number
                           /\ s.day_number = day_number}
    IN  {s \in c : \A t \in c : t.week_number <= s.week_number}

\* Sessions the source-session query matches.
SourceCandidates(rows, source_instance_id, user_id, source_week_number, day_number) ==
    {s \in rows : /\ s.mesocycle_instance_id = source_instance_id
                  /\ s.user_id = user_id
                  /\ s.week_number = source_week_number
                  /\ s.day_number = day_number}

---------------------------------------------------------------------------
(* Set generation *)

NewSet(session_id, exercise_id, set_number, order_index, target_weight, target_reps, target_rir) ==
    [id |-> 0, workout_session_id |-> session_id, exercise_id |-> exercise_id,
     set_number |-> set_number, order_index |-> order_index,
     weight |-> 0, reps |-> 0, target_weight |-> target_weight,
     target_reps |-> target_reps, target_rir |-> target_rir, skipped |-> 0]

\* Concatenation of f[1], ..., f[n]
RECURSIVE Flatten(_, _)
Flatten(f, n) == IF n = 0 THEN <<>> ELSE Flatten(f, n - 1) \o f[n]

\* db.add in sequence: ids are handed out in insertion order
WithIds(drafts, base) ==
    {[drafts[i] EXCEPT !.id = base + i - 1] : i \in 1..Len(drafts)}

\* The WorkoutSet built in the loop body of _generate_sets_from_template,
\* taking the template's target_sets / order_index as they are
TemplateSetPlainOrder(session_id, te, set_num) ==
    NewSet(session_id, te.exercise_id, set_num, te.order_index, Null,
           te.target_reps_max, te.starting_rir)

\* The WorkoutSet built in the loop body of _generate_sets_from_template
TemplateSet(session_id, te, set_num) ==
    NewSet(session_id, te.exercise_id, set_num, te.order_index * 100 + set_num,
           Null, te.target_reps_max, te.starting_rir)

\* _generate_sets_from_template
GenerateSetsFromTemplate(session_id, template_id, week_number, total_weeks) ==
    LET exercises == TemplateTable[template_id].exercises
        one(te) ==
          LET muscle_group == MuscleGroupOf(te.exercise_id)
              num_sets == GetSetsForWeek(muscle_group, week_number, total_weeks)
          IN  [set_num \in 1..num_sets |-> TemplateSet(session_id, te, set_num)]
    IN  Flatten([i \in 1..Len(exercises) |-> one(exercises[i])], Len(exercises))

\* Branch A with the offset of the previous session left out
CarryForwardNumSetsNoOffset(muscle_group, prev_week, actual_prev, week_number, total_weeks) ==
    LET is_deload == total_weeks > 0 /\ week_number = total_weeks
    IN  IF is_deload THEN 1
        ELSE Max(1, GetSetsForWeek(muscle_group, week_number, total_weeks))

\* Branch A of create_workout_session: num_sets of one exercise
CarryForwardNumSets(muscle_group, prev_week, actual_prev, week_number, total_weeks) ==
    LET expected_prev == GetSetsForWeek(muscle_group, prev_week, total_weeks)
        offset == actual_prev - expected_prev
        is_deload == total_weeks > 0 /\ week_number = total_weeks
    IN  IF is_deload THEN 1
        ELSE Max(1, GetSetsForWeek(muscle_group, week_number, total_weeks) + offset)

\* Branch A with order_index numbered afresh instead of inherited
CarryForwardSetOwnOrder(session_id, exercise_id, set_num, prev_exercise_sets) ==
    LET pos == MatchPositions(prev_exercise_sets, set_num)
        found == pos # {}
        prev_set == prev_exercise_sets[SetMin(pos)]
        fallback_set == IF found THEN prev_set
                        ELSE prev_exercise_sets[Len(prev_exercise_sets)]
    IN  NewSet(session_id, exercise_id, set_num, set_num,
               IF found THEN GenTargetWeight(prev_set.weight) ELSE Null,
               IF found /\ prev_set.reps > 0
               THEN prev_set.reps ELSE fallback_set.target_reps,
               fallback_set.target_rir)

\* Branch A with target_reps always taken from the previous target
CarryForwardSetKeepsTarget(session_id, exercise_id, set_num, prev_exercise_sets) ==
    LET pos == MatchPositions(prev_exercise_sets, set_num)
        found == pos # {}
        prev_set == prev_exercise_sets[SetMin(pos)]
        fallback_set == IF found THEN prev_set
                        ELSE prev_exercise_sets[Len(prev_exercise_sets)]
    IN  NewSet(session_id, exercise_id, set_num, fallback_set.order_index,
               IF found THEN GenTargetWeight(prev_set.weight) ELSE Null,
               fallback_set.target_reps,
               fallback_set.target_rir)

\* Branch A of create_workout_session: the WorkoutSet for one set_num
CarryForwardSet(session_id, exercise_id, set_num, prev_exercise_sets) ==
    LET pos == MatchPositions(prev_exercise_sets, set_num)
        found == pos # {}
        prev_set == prev_exercise_sets[SetMin(pos)]
        fallback_set == IF found THEN prev_set
                        ELSE prev_exercise_sets[Len(prev_exercise_sets)]
    IN  NewSet(session_id, exercise_id, set_num, fallback_set.order_index,
               IF found THEN GenTargetWeight(prev_set.weight) ELSE Null,
               IF found /\ prev_set.reps > 0
               THEN prev_set.reps ELSE fallback_set.target_reps,
               fallback_set.target_rir)

\* Branch A of create_workout_session: one exercise of the previous session
CarryForwardExercise(session_id, exercise_id, prev_exercise_sets, prev_week, week_number, total_weeks) ==
    LET muscle_group == MuscleGroupOf(exercise_id)
        num_sets == CarryForwardNumSets(muscle_group, prev_week,
                                        Len(prev_exercise_sets), week_number,
                                        total_weeks)
    IN  [set_num \in 1..num_sets |->
           CarryForwardSet(session_id, exercise_id, set_num, prev_exercise_sets)]

\* Branch A of create_workout_session over prev_sets, the previous session's
\* sets as the query returned them
CarryForwardFrom(session_id, prev_sets, prev_week, week_number, total_weeks) ==
    LET order == ExerciseOrder(prev_sets)
    IN  Flatten([i \in 1..Len(order) |->
                   CarryForwardExercise(session_id, order[i],
                                        ExerciseGroup(prev_sets, order[i]),
                                        prev_week, week_number, total_weeks)],
                Len(order))

CarryForward(session_id, prev_session, tie, week_number, total_weeks) ==
    CarryForwardFrom(session_id, OrderedSets(SetsOf(sets, prev_session.id), tie),
                     prev_session.week_number, week_number, total_weeks)

\* Branch B with the source weight projected as in branch A
FromSourceSetProjected(session_id, exercise_id, set_num, source_exercise_sets) ==
    LET pos == MatchPositions(source_exercise_sets, set_num)
        found == pos # {}
        source_set == source_exercise_sets[SetMin(pos)]
        fallback_set == IF found THEN source_set
                        ELSE source_exercise_sets[Len(source_exercise_sets)]
    IN  NewSet(session_id, exercise_id, set_num, fallback_set.order_index,
               IF found THEN GenTargetWeight(source_set.weight) ELSE Null,
               IF found /\ source_set.reps > 0
               THEN source_set.reps ELSE fallback_set.target_reps,
               fallback_set.target_rir)

\* Branch B of create_workout_session: the WorkoutSet for one set_num
FromSourceSet(session_id, exercise_id, set_num, source_exercise_sets) ==
    LET pos == MatchPositions(source_exercise_sets, set_num)
        found == pos # {}
        source_set == source_exercise_sets[SetMin(pos)]
        fallback_set == IF found THEN source_set
                        ELSE source_exercise_sets[Len(source_exercise_sets)]
    IN  NewSet(session_id, exercise_id, set_num, fallback_set.order_index,
               IF found /\ source_set.weight > 0
               THEN source_set.weight ELSE Null,
               IF found /\ source_set.reps > 0
               THEN source_set.reps ELSE fallback_set.target_reps,
               fallback_set.target_rir)

\* Branch B of create_workout_session: one exercise of the source session
FromSourceExercise(session_id, exercise_id, source_exercise_sets, week_number, total_weeks) ==
    LET muscle_group == MuscleGroupOf(exercise_id)
        num_sets == GetSetsForWeek(muscle_group, week_number, total_weeks)
    IN  [set_num \in 1..num_sets |->
           FromSourceSet(session_id, exercise_id, set_num, source_exercise_sets)]

FromSource(session_id, source_session, tie, week_number, total_weeks) ==
    LET source_sets == OrderedSets(SetsOf(sets, source_session.id), tie)
        order == ExerciseOrder(source_sets)
    IN  Flatten([i \in 1..Len(order) |->
                   FromSourceExercise(session_id, order[i],
                                      ExerciseGroup(source_sets, order[i]),
                                      week_number, total_weeks)],
                Len(order))

\* elif template and template.exercises: _generate_sets_from_template(...)
TemplateFallback(session_id, template_id, week_number, total_weeks) ==
    IF TemplateExists(template_id) /\ TemplateTable[template_id].exercises # <<>>
    THEN GenerateSetsFromTemplate(session_id, template_id, week_number, total_weeks)
    ELSE <<>>

---------------------------------------------------------------------------
(* Session endpoints *)

NoSession == [id |-> 0]

NoCall == [fn |-> "none"]

NoTx == [state |-> "idle"]

\* A source branch that is open in every week
SourceAppliesAnyWeek(week_number, source_instance_id, source_week_number) ==
    /\ source_instance_id # Null
    /\ source_week_number # Null

\* elif session_data.week_number == 1 and session_data.source_instance_id is
\* not None and session_data.source_week_number is not None
SourceApplies(week_number, source_instance_id, source_week_number) ==
    /\ week_number = 1
    /\ source_instance_id # Null
    /\ source_week_number # Null

\* create_workout_session up to its commit: the session row it flushes and the
\* sets it adds, for each answer the database may give to its queries
CreateOutcomes(user_id, instance_id, template_id, week_number, day_number, source_instance_id, source_week_number) ==
    LET session_id == NextSessionId
        workout_session ==
          [id |-> session_id, user_id |-> user_id,
           mesocycle_instance_id |-> instance_id,
           workout_template_id |-> template_id,
           week_number |-> week_number, day_number |-> day_number,
           status |-> "in_progress", completed_at |-> Null]
        \* db.flush(): the new row is visible to the queries below
        flushed == sessions \cup {workout_session}
        total_weeks == TotalWeeks(template_id)
        prevs == IF week_number > 1
                 THEN PrevCandidates(flushed, instance_id, user_id,
                                     week_number, day_number)
                 ELSE {}
        sources == IF SourceApplies(week_number, source_instance_id,
                                    source_week_number)
                   THEN SourceCandidates(flushed, source_instance_id, user_id,
                                         source_week_number, day_number)
                   ELSE {}
    IN  {[session |-> workout_session,
          drafts |->
            IF prev_session # NoSession
            THEN CarryForward(session_id, prev_session, tie,
                              week_number, total_weeks)
            ELSE IF source_session # NoSession
            THEN FromSource(session_id, source_session, tie,
                            week_number, total_weeks)
            ELSE TemplateFallback(session_id, template_id,
                                  week_number, total_weeks)] :
           prev_session \in (IF prevs = {} THEN {NoSession} ELSE prevs),
           source_session \in (IF sources = {} THEN {NoSession} ELSE sources),
           tie \in Ties}

\* POST /workout-sessions/
CreateWorkoutSession(user_id, instance_id, template_id, week_number, day_number, source_instance_id, source_week_number) ==
    /\ steps < MaxOps
    /\ \E outcome \in CreateOutcomes(user_id, instance_id, template_id,
                                      week_number, day_number,
                                      source_instance_id, source_week_number) :
         /\ sets' = sets \cup WithIds(outcome.drafts, NextSetId(sets))
         /\ sessions' = sessions \cup {outcome.session}
         /\ last' = [op |-> "create_workout_session", result |-> 201,
                     session_id |-> outcome.session.id,
                     source_instance_id |-> source_instance_id,
                     source_week_number |-> source_week_number]
    /\ steps' = steps + 1
    /\ UNCHANGED <<call, tx, instances, inflight>>

\* The requests the model sends to POST /workout-sessions/: the first block's
\* day 1 in every week with a template that exists or not, its day 2, and
\* week 1 of the second block with and without a source reference.
NoSource == <<Null, Null>>

CreateRequests ==
    {[instance_id |-> 1, day_number |-> 1, template_id |-> t, week_number |-> w,
      source |-> NoSource] : t \in {1, 3}, w \in Weeks}
    \cup {[instance_id |-> 1, day_number |-> 2, template_id |-> 2,
           week_number |-> 1, source |-> NoSource]}
    \cup {[instance_id |-> 2, day_number |-> 1, template_id |-> 1,
           week_number |-> 1, source |-> s] :
            s \in {NoSource, <<1, 1>>, <<1, 2>>, <<1, Null>>, <<2, 1>>}}

\* The requests of a behaviour that studies the exercise mutations: the first
\* block's day 1, weeks 1 and 2 from template 1, and a week 1 whose template
\* is gone, which starts with no sets.
PlainRequests ==
    {r \in CreateRequests :
       /\ r.instance_id = 1
       /\ r.day_number = 1
       /\ \/ r.template_id = 1 /\ r.week_number < 3
          \/ r.template_id = 3 /\ r.week_number = 1}

\* The requests of a behaviour that studies missing references: day 2 of the
\* first block from template 2 (its exercise 9 has no row), from template 3
\* (no row) and from template 4 (no exercises), and week 1 of the second
\* block's day 2 with and without a source reference.
ToleranceRequests ==
    {[instance_id |-> 1, day_number |-> 2, template_id |-> t, week_number |-> w,
      source |-> NoSource] : t \in {2, 3}, w \in {1, 2}}
    \cup {[instance_id |-> 1, day_number |-> 2, template_id |-> 4,
           week_number |-> 1, source |-> NoSource]}
    \cup {[instance_id |-> 2, day_number |-> 2, template_id |-> 2,
           week_number |-> 1, source |-> s] :
            s \in {NoSource, <<1, 1>>, <<1, 2>>}}

\* The requests of a behaviour that studies the previous-session query: week
\* 2 of the first block's day 1, its week 3 with a template that is gone (so
\* that week 3 is no deload), and week 2 of its day 2 and of the second
\* block's day 1.
PrevRequests ==
    {[instance_id |-> 1, day_number |-> 1, template_id |-> 1, week_number |-> 2,
      source |-> NoSource],
     [instance_id |-> 1, day_number |-> 1, template_id |-> 3, week_number |-> 3,
      source |-> NoSource],
     [instance_id |-> 1, day_number |-> 2, template_id |-> 1, week_number |-> 2,
      source |-> NoSource],
     [instance_id |-> 2, day_number |-> 1, template_id |-> 1, week_number |-> 2,
      source |-> NoSource]}

\* The requests of a behaviour that studies the source reference: weeks 1
\* and 2 of day 1 in both blocks, with no source reference, a full one and
\* one without a week.
SourceRequests ==
    {[instance_id |-> i, day_number |-> 1, template_id |-> 1, week_number |-> w,
      source |-> s] :
        i \in {1, 2}, w \in {1, 2},
        s \in {NoSource, <<1, 1>>, <<2, 1>>, <<1, Null>>}}

CreateStep(requests) ==
    /\ steps < MaxOps
    /\ Cardinality(sessions) < MaxSessions
    /\ \E user_id \in Users, r \in requests :
        CreateWorkoutSession(user_id, r.instance_id, r.template_id, r.week_number,
                             r.day_number, r.source[1], r.source[2])

\* Session ids a request names: a row's id, and for a read also an id with no row.
SessionIdArgs == {s.id : s \in sessions}

ReadIdArgs == SessionIdArgs \cup {NextSessionId}

\* A request answered with an HTTPException: nothing is written
Failed(op, session_id, code) ==
    /\ last' = [op |-> op, result |-> code, session_id |-> session_id]
    /\ UNCHANGED <<sessions, sets>>

\* The same for a request that names an exercise of the session
FailedOn(op, session_id, exercise_id, code) ==
    /\ last' = [op |-> op, result |-> code, session_id |-> session_id,
                exercise_id |-> exercise_id]
    /\ UNCHANGED <<sessions, sets>>

\* A refresh that leaves target_reps as it was
RefreshedSetWeightOnly(ws, prev_rows, tie) ==
    LET matches == {p \in prev_rows : /\ p.exercise_id = ws.exercise_id
                                      /\ p.set_number = ws.set_number}
    IN  IF matches = {} THEN ws
        ELSE LET first_id == IF tie = "asc" THEN SetMin({p.id : p \in matches})
                             ELSE SetMax({p.id : p \in matches})
                 prev_set == CHOOSE p \in matches : p.id = first_id
                 reps_done == ws
             IN  [reps_done EXCEPT !.target_weight =
                    RefreshTargetWeight(@, prev_set.weight)]

\* The read-time refresh of one set against the previous session's sets
RefreshedSet(ws, prev_rows, tie) ==
    LET matches == {p \in prev_rows : /\ p.exercise_id = ws.exercise_id
                                      /\ p.set_number = ws.set_number}
    IN  IF matches = {} THEN ws
        ELSE LET first_id == IF tie = "asc" THEN SetMin({p.id : p \in matches})
                             ELSE SetMax({p.id : p \in matches})
                 prev_set == CHOOSE p \in matches : p.id = first_id
                 reps_done == [ws EXCEPT !.target_reps =
                                 IF prev_set.reps > 0 /\ ws.target_reps # prev_set.reps
                                 THEN prev_set.reps ELSE @]
             IN  [reps_done EXCEPT !.target_weight =
                    RefreshTargetWeight(@, prev_set.weight)]

\* A refresh gate that looks at the week only
RefreshAppliesAnyStatus(workout_session) == workout_session.week_number > 1

\* get_workout_session: the condition under which targets are refreshed
RefreshApplies(workout_session) ==
    /\ workout_session.status = "in_progress"
    /\ workout_session.week_number > 1

\* GET /workout-sessions/{session_id}
GetWorkoutSession(user_id, session_id) ==
    /\ steps < MaxOps
    /\ steps' = steps + 1
    /\ UNCHANGED <<sessions, call, tx, instances, inflight>>
    /\ IF ~SessionExists(session_id, user_id)
       THEN Failed("get_workout_session", session_id, 404)
       ELSE LET workout_session == SessionById(session_id)
                prevs == IF RefreshApplies(workout_session)
                         THEN PrevCandidates(sessions,
                                             workout_session.mesocycle_instance_id,
                                             user_id, workout_session.week_number,
                                             workout_session.day_number)
                         ELSE {}
            IN  \E prev_session \in (IF prevs = {} THEN {NoSession} ELSE prevs),
                   tie \in Ties :
                    LET mine == SetsOf(sets, session_id)
                        refreshed ==
                          IF prev_session = NoSession THEN mine
                          ELSE {RefreshedSet(ws, SetsOf(sets, prev_session.id), tie) :
                                  ws \in mine}
                    IN  /\ sets' = (sets \ mine) \cup refreshed
                        /\ last' = [op |-> "get_workout_session", result |-> 200,
                                    session_id |-> session_id,
                                    dirty |-> (refreshed # mine),
                                    again |-> /\ last.op = "get_workout_session"
                                              /\ last.result = 200
                                              /\ last.session_id = session_id]

Statuses == {"in_progress", "completed", "skipped"}

\* A timestamp written on every completion
CompletedAtRestamped(workout_session, new_status, now) ==
    IF new_status = "completed" THEN now ELSE workout_session.completed_at

\* if update_data.get("status") == "completed" and not
\* workout_session.completed_at: workout_session.completed_at = datetime.now()
CompletedAt(workout_session, new_status, now) ==
    IF new_status = "completed" /\ workout_session.completed_at = Null
    THEN now ELSE workout_session.completed_at

\* PATCH /workout-sessions/{session_id} with {"status": new_status}
UpdateWorkoutSession(user_id, session_id, new_status) ==
    /\ steps < MaxOps
    /\ steps' = steps + 1
    /\ UNCHANGED <<sets, call, tx, instances, inflight>>
    /\ IF ~SessionExists(session_id, user_id)
       THEN Failed("update_workout_session", session_id, 404)
       ELSE LET workout_session == SessionById(session_id)
                updated == [workout_session EXCEPT
                              !.status = new_status,
                              !.completed_at =
                                 CompletedAt(workout_session, new_status,
                                             steps + 1)]
            IN  /\ sessions' = (sessions \ {workout_session}) \cup {updated}
                /\ last' = [op |-> "update_workout_session", result |-> 200,
                            session_id |-> session_id]

\* DELETE /workout-sessions/{session_id}
DeleteWorkoutSession(user_id, session_id) ==
    /\ steps < MaxOps
    /\ steps' = steps + 1
    /\ UNCHANGED <<call, tx, instances, inflight>>
    /\ IF ~SessionExists(session_id, user_id)
       THEN Failed("delete_workout_session", session_id, 404)
       ELSE /\ sessions' = sessions \ {SessionById(session_id)}
            /\ sets' = sets \ SetsOf(sets, session_id)
            /\ last' = [op |-> "delete_workout_session", result |-> 204,
                        session_id |-> session_id]

---------------------------------------------------------------------------
(* Set endpoints *)

\* Bodies the model sends to POST /workout-sessions/{session_id}/sets
SetCreateBodies ==
    {[exercise_id |-> 3, set_number |-> 1, order_index |-> 0,
      weight |-> 10000, reps |-> 10]}

\* POST /workout-sessions/{session_id}/sets
AddWorkoutSet(user_id, session_id, set_data) ==
    /\ steps < MaxOps
    /\ steps' = steps + 1
    /\ UNCHANGED <<call, tx, instances, inflight>>
    /\ IF ~SessionExists(session_id, user_id)
       THEN Failed("add_workout_set", session_id, 404)
       ELSE /\ sets' = sets \cup
                 {[id |-> NextSetId(sets), workout_session_id |-> session_id,
                   exercise_id |-> set_data.exercise_id,
                   set_number |-> set_data.set_number,
                   order_index |-> set_data.order_index,
                   weight |-> set_data.weight, reps |-> set_data.reps,
                   target_weight |-> Null, target_reps |-> Null,
                   target_rir |-> Null, skipped |-> 0]}
            /\ last' = [op |-> "add_workout_set", result |-> 201,
                        session_id |-> session_id]
            /\ UNCHANGED sessions

\* Bodies the model sends to PATCH .../sets/{set_id}: the logged weight and
\* reps, or the skipped flag alone
SetUpdateBodies ==
    {[weight |-> 10000, reps |-> 10],
     [weight |-> 1004, reps |-> 0],
     [weight |-> 0, reps |-> 8],
     [skipped |-> 1]}

\* setattr(workout_set, field, value) for the fields the body sets
ApplyUpdate(workout_set, update_data) ==
    [field \in DOMAIN workout_set |->
       IF field \in DOMAIN update_data THEN update_data[field]
       ELSE workout_set[field]]

\* Set ids a request on a session names: its rows' ids and one id with no row.
SetIdArgs(session_id) == {w.id : w \in SetsOf(sets, session_id)} \cup {NextSetId(sets)}

SetInSession(set_id, session_id) ==
    \E w \in sets : w.id = set_id /\ w.workout_session_id = session_id

SetById(set_id) == CHOOSE w \in sets : w.id = set_id

\* PATCH /workout-sessions/{session_id}/sets/{set_id}
UpdateWorkoutSet(user_id, session_id, set_id, set_update) ==
    /\ steps < MaxOps
    /\ steps' = steps + 1
    /\ UNCHANGED <<call, tx, instances, inflight>>
    /\ IF ~SessionExists(session_id, user_id) \/ ~SetInSession(set_id, session_id)
       THEN Failed("update_workout_set", session_id, 404)
       ELSE LET workout_set == SetById(set_id)
            IN  /\ sets' = (sets \ {workout_set}) \cup
                     {ApplyUpdate(workout_set, set_update)}
                /\ last' = [op |-> "update_workout_set", result |-> 200,
                            session_id |-> session_id]
                /\ UNCHANGED sessions

\* DELETE /workout-sessions/{session_id}/sets/{set_id}
DeleteWorkoutSet(user_id, session_id, set_id) ==
    /\ steps < MaxOps
    /\ steps' = steps + 1
    /\ UNCHANGED <<call, tx, instances, inflight>>
    /\ IF ~SessionExists(session_id, user_id) \/ ~SetInSession(set_id, session_id)
       THEN Failed("delete_workout_set", session_id, 404)
       ELSE /\ sets' = sets \ {SetById(set_id)}
            /\ last' = [op |-> "delete_workout_set", result |-> 204,
                        session_id |-> session_id]
            /\ UNCHANGED sessions

---------------------------------------------------------------------------
(* Exercise management endpoints *)

\* A guard that lets every session through
RejectIfCompletedNever(workout_session) == FALSE

\* _reject_if_completed
RejectIfCompleted(workout_session) == workout_session.status = "completed"

\* _get_session_or_404 followed by _reject_if_completed: 0 when both pass
Guard(user_id, session_id) ==
    IF ~SessionExists(session_id, user_id) THEN 404
    ELSE IF RejectIfCompleted(SessionById(session_id)) THEN 400
    ELSE 0

\* A swap that also clears the rep and effort targets
SwappedSetResetsTargets(ws, new_exercise_id) ==
    [ws EXCEPT !.exercise_id = new_exercise_id, !.weight = 0, !.reps = 0,
               !.target_weight = Null, !.skipped = 0,
               !.target_reps = Null, !.target_rir = Null]

\* swap_exercise: one of old_sets after the loop body
SwappedSet(ws, new_exercise_id) ==
    [ws EXCEPT !.exercise_id = new_exercise_id, !.weight = 0, !.reps = 0,
               !.target_weight = Null, !.skipped = 0]

\* POST /workout-sessions/{session_id}/exercises/swap
SwapExercise(user_id, session_id, old_exercise_id, new_exercise_id) ==
    /\ steps < MaxOps
    /\ steps' = steps + 1
    /\ UNCHANGED <<call, tx, instances, inflight>>
    /\ LET old_sets == SetsOfExercise(sets, session_id, old_exercise_id)
       IN  IF Guard(user_id, session_id) # 0
           THEN Failed("swap_exercise", session_id, Guard(user_id, session_id))
           ELSE IF ~ExerciseExists(new_exercise_id) \/ old_sets = {}
           THEN Failed("swap_exercise", session_id, 404)
           ELSE /\ sets' = (sets \ old_sets) \cup
                     {SwappedSet(ws, new_exercise_id) : ws \in old_sets}
                /\ last' = [op |-> "swap_exercise", result |-> 200,
                            session_id |-> session_id,
                            old_exercise_id |-> old_exercise_id,
                            new_exercise_id |-> new_exercise_id]
                /\ UNCHANGED sessions

\* DELETE /workout-sessions/{session_id}/exercises/{exercise_id}
RemoveExercise(user_id, session_id, exercise_id) ==
    /\ steps < MaxOps
    /\ steps' = steps + 1
    /\ UNCHANGED <<call, tx, instances, inflight>>
    /\ LET deleted == SetsOfExercise(sets, session_id, exercise_id)
       IN  IF Guard(user_id, session_id) # 0
           THEN FailedOn("remove_exercise", session_id, exercise_id, Guard(user_id, session_id))
           ELSE IF Cardinality(deleted) = 0
           THEN FailedOn("remove_exercise", session_id, exercise_id, 404)
           ELSE /\ sets' = sets \ deleted
                /\ last' = [op |-> "remove_exercise", result |-> 200,
                            session_id |-> session_id,
                            exercise_id |-> exercise_id]
                /\ UNCHANGED sessions

\* A duplicate check that never finds the exercise
AlreadyInSessionNever(session_id, exercise_id) == FALSE

\* add_exercise: existing, the exercise already has a set in the session
AlreadyInSession(session_id, exercise_id) ==
    SetsOfExercise(sets, session_id, exercise_id) # {}

\* A set of an added exercise placed at the session's current max order_index
AddedExerciseSetSameOrder(session_id, exercise_id, set_num, max_order) ==
    NewSet(session_id, exercise_id, set_num, max_order, Null, Null, 3)

\* add_exercise: the WorkoutSet built for one set_num
AddedExerciseSet(session_id, exercise_id, set_num, max_order) ==
    NewSet(session_id, exercise_id, set_num, max_order + 100, Null, Null, 3)

\* add_exercise: the sets it adds before its commit
AddedExerciseSets(session_id, exercise_id) ==
    LET workout_session == SessionById(session_id)
        mine == SetsOf(sets, session_id)
        \* func.max(order_index).scalar() or 0
        max_order == IF mine = {} THEN 0
                     ELSE SetMax({w.order_index : w \in mine})
        total_weeks == TotalWeeks(workout_session.workout_template_id)
        num_sets == GetSetsForWeek(ExerciseTable[exercise_id],
                                   workout_session.week_number, total_weeks)
    IN  [set_num \in 1..num_sets |->
           AddedExerciseSet(session_id, exercise_id, set_num, max_order)]

\* POST /workout-sessions/{session_id}/exercises/add
AddExercise(user_id, session_id, exercise_id) ==
    /\ steps < MaxOps
    /\ steps' = steps + 1
    /\ UNCHANGED <<call, tx, instances, inflight>>
    /\ IF Guard(user_id, session_id) # 0
       THEN FailedOn("add_exercise", session_id, exercise_id, Guard(user_id, session_id))
       ELSE IF ~ExerciseExists(exercise_id)
       THEN FailedOn("add_exercise", session_id, exercise_id, 404)
       ELSE IF AlreadyInSession(session_id, exercise_id)
       THEN FailedOn("add_exercise", session_id, exercise_id, 400)
       ELSE LET drafts == AddedExerciseSets(session_id, exercise_id)
            IN  /\ sets' = sets \cup WithIds(drafts, NextSetId(sets))
                /\ last' = [op |-> "add_exercise", result |-> 200,
                            session_id |-> session_id,
                            exercise_id |-> exercise_id]
                /\ UNCHANGED sessions

\* A row with the least set_number
BottomSets(rows) == {w \in rows : \A v \in rows : v.set_number >= w.set_number}

\* .order_by(WorkoutSet.set_number.desc()).all()[0]: a row with the greatest
\* set_number (the database chooses among equals)
TopSets(rows) == {w \in rows : \A v \in rows : v.set_number <= w.set_number}

\* A new set that repeats the last set's number
AppendedSetSameNumber(session_id, exercise_id, last_set) ==
    NewSet(session_id, exercise_id, last_set.set_number, last_set.order_index,
           Null, last_set.target_reps, last_set.target_rir)

\* add_set_to_exercise: new_set, built from last_set
AppendedSet(session_id, exercise_id, last_set) ==
    NewSet(session_id, exercise_id, last_set.set_number + 1, last_set.order_index,
           Null, last_set.target_reps, last_set.target_rir)

\* POST /workout-sessions/{session_id}/exercises/{exercise_id}/sets
AddSetToExercise(user_id, session_id, exercise_id) ==
    /\ steps < MaxOps
    /\ steps' = steps + 1
    /\ UNCHANGED <<call, tx, instances, inflight>>
    /\ LET existing_sets == SetsOfExercise(sets, session_id, exercise_id)
       IN  IF Guard(user_id, session_id) # 0
           THEN FailedOn("add_set_to_exercise", session_id, exercise_id, Guard(user_id, session_id))
           ELSE IF existing_sets = {}
           THEN FailedOn("add_set_to_exercise", session_id, exercise_id, 404)
           ELSE \E last_set \in TopSets(existing_sets) :
                  /\ sets' = sets \cup
                       {[AppendedSet(session_id, exercise_id, last_set)
                           EXCEPT !.id = NextSetId(sets)]}
                  /\ last' = [op |-> "add_set_to_exercise", result |-> 201,
                              session_id |-> session_id,
                              exercise_id |-> exercise_id]
                  /\ UNCHANGED sessions

\* DELETE /workout-sessions/{session_id}/exercises/{exercise_id}/sets
RemoveSetFromExercise(user_id, session_id, exercise_id) ==
    /\ steps < MaxOps
    /\ steps' = steps + 1
    /\ UNCHANGED <<call, tx, instances, inflight>>
    /\ LET existing_sets == SetsOfExercise(sets, session_id, exercise_id)
       IN  IF Guard(user_id, session_id) # 0
           THEN FailedOn("remove_set_from_exercise", session_id, exercise_id, Guard(user_id, session_id))
           ELSE IF existing_sets = {}
           THEN FailedOn("remove_set_from_exercise", session_id, exercise_id, 404)
           ELSE IF Cardinality(existing_sets) <= 1
           THEN FailedOn("remove_set_from_exercise", session_id, exercise_id, 400)
           ELSE \E top \in TopSets(existing_sets) :
                  /\ sets' = sets \ {top}
                  /\ last' = [op |-> "remove_set_from_exercise", result |-> 200,
                              session_id |-> session_id,
                              exercise_id |-> exercise_id]
                  /\ UNCHANGED sessions

---------------------------------------------------------------------------
(* Mesocycle instance endpoints (routers/mesocycle_instances.py) *)

InstanceById(instance_id) == CHOOSE i \in instances : i.id = instance_id

InstanceFound(instance_id) == \E i \in instances : i.id = instance_id

NextInstanceId ==
    IF instances = {} THEN 1 ELSE SetMax({i.id : i \in instances}) + 1

\* Instance ids a request names: a row's id and an id with no row
InstanceIdArgs == {i.id : i \in instances} \cup {NextInstanceId}

\* A request answered with an HTTPException: nothing is written
InstanceFailed(op, instance_id, code) ==
    /\ last' = [op |-> op, result |-> code, instance_id |-> instance_id]
    /\ UNCHANGED <<instances, sessions, sets>>

\* start_mesocycle_instance: the user already has an active instance
ExistingActive(user_id) ==
    \E i \in instances : i.user_id = user_id /\ i.status = "active"

\* POST /mesocycle-instances/
StartMesocycleInstance(user_id, mesocycle_template_id) ==
    /\ steps < MaxOps
    /\ steps' = steps + 1
    /\ UNCHANGED <<call, tx, inflight>>
    /\ IF ExistingActive(user_id)
       THEN InstanceFailed("start_mesocycle_instance", Null, 400)
       ELSE IF mesocycle_template_id \notin DOMAIN MesocycleTable
       THEN InstanceFailed("start_mesocycle_instance", Null, 404)
       ELSE IF /\ MesocycleTable[mesocycle_template_id].user_id # user_id
               /\ ~MesocycleTable[mesocycle_template_id].is_stock
       THEN InstanceFailed("start_mesocycle_instance", Null, 403)
       ELSE /\ instances' = instances \cup
                 {[id |-> NextInstanceId, user_id |-> user_id,
                   mesocycle_template_id |-> mesocycle_template_id,
                   status |-> "active", end_date |-> Null]}
            /\ last' = [op |-> "start_mesocycle_instance", result |-> 201,
                        instance_id |-> NextInstanceId]
            /\ UNCHANGED <<sessions, sets>>

\* MesocycleInstanceUpdate after model_dump(exclude_unset=True): an empty body
\* or a status matching ^(active|completed|abandoned)$
InstanceUpdateBodies ==
    {[set |-> FALSE, status |-> "active"]} \cup
    {[set |-> TRUE, status |-> st] : st \in {"active", "completed", "abandoned"}}

\* PATCH /mesocycle-instances/{instance_id}
UpdateMesocycleInstance(user_id, instance_id, update_data) ==
    /\ steps < MaxOps
    /\ steps' = steps + 1
    /\ UNCHANGED <<call, tx, inflight>>
    /\ IF ~InstanceFound(instance_id)
       THEN InstanceFailed("update_mesocycle_instance", instance_id, 404)
       ELSE IF InstanceById(instance_id).user_id # user_id
       THEN InstanceFailed("update_mesocycle_instance", instance_id, 403)
       ELSE LET instance == InstanceById(instance_id)
                dated == IF /\ update_data.set
                            /\ update_data.status \in {"completed", "abandoned"}
                         THEN [instance EXCEPT !.end_date = Today]
                         ELSE instance
                updated == IF update_data.set
                           THEN [dated EXCEPT !.status = update_data.status]
                           ELSE dated
            IN  /\ instances' = (instances \ {instance}) \cup {updated}
                /\ last' = [op |-> "update_mesocycle_instance", result |-> 200,
                            instance_id |-> instance_id]
                /\ UNCHANGED <<sessions, sets>>

\* DELETE /mesocycle-instances/{instance_id}: the instance goes with its
\* workout sessions and their sets (cascade="all, delete-orphan")
DeleteMesocycleInstance(user_id, instance_id) ==
    /\ steps < MaxOps
    /\ steps' = steps + 1
    /\ UNCHANGED <<call, tx, inflight>>
    /\ IF ~InstanceFound(instance_id)
       THEN InstanceFailed("delete_mesocycle_instance", instance_id, 404)
       ELSE IF InstanceById(instance_id).user_id # user_id
       THEN InstanceFailed("delete_mesocycle_instance", instance_id, 403)
       ELSE LET gone == {s \in sessions : s.mesocycle_instance_id = instance_id}
            IN  /\ instances' = instances \ {InstanceById(instance_id)}
                /\ sessions' = sessions \ gone
                /\ sets' = {w \in sets :
                              w.workout_session_id \notin {s.id : s \in gone}}
                /\ last' = [op |-> "delete_mesocycle_instance", result |-> 204,
                            instance_id |-> instance_id]

---------------------------------------------------------------------------
(* The transaction of one request, step by step.  sessions and sets are    *)
(* the committed rows, what every other request sees; tx holds the writes  *)
(* the handler has issued on its own database session since it began.      *)

\* A sessionmaker that commits every write as it is issued
AutocommitOn == TRUE

\* SessionLocal = sessionmaker(autocommit=False, ...)
autocommit == FALSE

Db(session_rows, set_rows) == [sessions |-> session_rows, sets |-> set_rows]

\* The committed rows after one write has become visible
ApplyWrite(db, w) ==
    CASE w.kind = "insert_session" -> [db EXCEPT !.sessions = @ \cup w.rows]
      [] w.kind = "insert" -> [db EXCEPT !.sets = @ \cup w.rows]
      [] w.kind = "update" ->
           [db EXCEPT !.sets =
              {r \in @ : r.id \notin {u.id : u \in w.rows}} \cup w.rows]
      [] w.kind = "delete" -> [db EXCEPT !.sets = @ \ w.rows]

RECURSIVE ApplyWrites(_, _, _)
\* The committed rows after the first n writes have become visible
ApplyWrites(db, writes, n) ==
    IF n = 0 THEN db ELSE ApplyWrite(ApplyWrites(db, writes, n - 1), writes[n])

\* How many of the open transaction's writes other requests can see
Visible(staged) == IF autocommit THEN staged ELSE 0

\* create_workout_session: db.add(workout_session), db.flush(), then one
\* db.add per generated set
CreateWrites(outcome) ==
    <<[kind |-> "insert_session", rows |-> {outcome.session}]>> \o
    [i \in 1..Len(outcome.drafts) |->
       [kind |-> "insert",
        rows |-> {[outcome.drafts[i] EXCEPT !.id = NextSetId(sets) + i - 1]}]]

\* add_exercise: one db.add per set
AddExerciseWrites(session_id, exercise_id) ==
    LET drafts == AddedExerciseSets(session_id, exercise_id)
    IN  [i \in 1..Len(drafts) |->
           [kind |-> "insert",
            rows |-> {[drafts[i] EXCEPT !.id = NextSetId(sets) + i - 1]}]]

\* swap_exercise: one attribute update per old set
SwapWrites(session_id, old_exercise_id, new_exercise_id) ==
    LET old_sets == OrderedSets(SetsOfExercise(sets, session_id, old_exercise_id),
                                "asc")
    IN  [i \in 1..Len(old_sets) |->
           [kind |-> "update", rows |-> {SwappedSet(old_sets[i], new_exercise_id)}]]

\* remove_exercise: one DELETE statement for all sets of the exercise
RemoveExerciseWrites(session_id, exercise_id) ==
    <<[kind |-> "delete", rows |-> SetsOfExercise(sets, session_id, exercise_id)]>>

\* A handler starts issuing its writes
Begin(op, session_id, writes) ==
    /\ steps < MaxOps
    /\ tx.state # "open"
    /\ tx' = [state |-> "open", op |-> op, session_id |-> session_id,
              writes |-> writes, staged |-> 0, before |-> Db(sessions, sets)]
    /\ steps' = steps + 1
    /\ UNCHANGED <<sessions, sets, last, call, instances, inflight>>

TxCreate ==
    /\ Cardinality(sessions) < MaxSessions
    /\ \E user_id \in Users, r \in PlainRequests :
         \E outcome \in CreateOutcomes(user_id, r.instance_id, r.template_id,
                                       r.week_number, r.day_number,
                                       r.source[1], r.source[2]) :
           Begin("create_workout_session", outcome.session.id,
                 CreateWrites(outcome))

TxAddExercise ==
    \E user_id \in Users, s \in SessionIdArgs, e \in ExerciseIds :
      /\ Guard(user_id, s) = 0
      /\ ExerciseExists(e)
      /\ ~AlreadyInSession(s, e)
      /\ Begin("add_exercise", s, AddExerciseWrites(s, e))

TxSwapExercise ==
    \E user_id \in Users, s \in SessionIdArgs, old \in ExerciseIds, new \in ExerciseIds :
      /\ Guard(user_id, s) = 0
      /\ ExerciseExists(new)
      /\ SetsOfExercise(sets, s, old) # {}
      /\ Begin("swap_exercise", s, SwapWrites(s, old, new))

TxRemoveExercise ==
    \E user_id \in Users, s \in SessionIdArgs, e \in ExerciseIds :
      /\ Guard(user_id, s) = 0
      /\ SetsOfExercise(sets, s, e) # {}
      /\ Begin("remove_exercise", s, RemoveExerciseWrites(s, e))

\* The committed rows while the transaction is at `staged` writes
Committed(staged) ==
    /\ sessions' = ApplyWrites(tx.before, tx.writes, staged).sessions
    /\ sets' = ApplyWrites(tx.before, tx.writes, staged).sets

\* The handler issues its next write (db.add, an attribute assignment, a
\* DELETE statement)
TxWrite ==
    /\ tx.state = "open"
    /\ tx.staged < Len(tx.writes)
    /\ tx' = [tx EXCEPT !.staged = @ + 1]
    /\ Committed(Visible(tx.staged + 1))
    /\ UNCHANGED <<last, steps, call, instances, inflight>>

\* db.commit() at the end of the handler
TxCommit ==
    /\ tx.state = "open"
    /\ tx.staged = Len(tx.writes)
    /\ tx' = [tx EXCEPT !.state = "committed"]
    /\ Committed(Len(tx.writes))
    /\ last' = [op |-> tx.op, result |-> 200, session_id |-> tx.session_id]
    /\ UNCHANGED <<steps, call, instances, inflight>>

\* The request dies before its commit (an exception, a lost connection):
\* get_db closes the database session, which rolls back what is uncommitted
TxRollback ==
    /\ tx.state = "open"
    /\ tx' = [tx EXCEPT !.state = "rolled_back"]
    /\ Committed(Visible(tx.staged))
    /\ last' = [op |-> tx.op, result |-> 500, session_id |-> tx.session_id]
    /\ UNCHANGED <<steps, call, instances, inflight>>

---------------------------------------------------------------------------
(* Two requests in flight.  A handler reads through its own database       *)
(* session, builds its rows and commits them later; nothing in the         *)
(* handlers, the engine or the tables (no lock, no isolation level, no      *)
(* unique constraint) keeps another request from reading in between.       *)

MaxInFlight == 2

\* A handler has passed its checks and built the rows it will add
ReadDone(op, session_id, exercise_id, drafts) ==
    /\ steps < MaxOps
    /\ Cardinality(inflight) < MaxInFlight
    /\ inflight' = inflight \cup
         {[rid |-> steps + 1, op |-> op, session_id |-> session_id,
           exercise_id |-> exercise_id, drafts |-> drafts]}
    /\ steps' = steps + 1
    /\ UNCHANGED <<sessions, sets, last, call, tx, instances>>

\* add_set_to_exercise up to new_set
AddSetRead ==
    \E user_id \in Users, s \in SessionIdArgs, e \in ExerciseIds :
      /\ Guard(user_id, s) = 0
      /\ SetsOfExercise(sets, s, e) # {}
      /\ \E last_set \in TopSets(SetsOfExercise(sets, s, e)) :
           ReadDone("add_set_to_exercise", s, e, <<AppendedSet(s, e, last_set)>>)

\* add_exercise up to the end of its loop
AddExerciseRead ==
    \E user_id \in Users, s \in SessionIdArgs, e \in ExerciseIds :
      /\ Guard(user_id, s) = 0
      /\ ExerciseExists(e)
      /\ ~AlreadyInSession(s, e)
      /\ ReadDone("add_exercise", s, e, AddedExerciseSets(s, e))

\* db.add(...) and db.commit() of a request in flight
WriteAndCommit ==
    \E r \in inflight :
      /\ inflight' = inflight \ {r}
      /\ sets' = sets \cup WithIds(r.drafts, NextSetId(sets))
      /\ last' = [op |-> r.op,
                  result |-> IF r.op = "add_exercise" THEN 200 ELSE 201,
                  session_id |-> r.session_id, exercise_id |-> r.exercise_id]
      /\ UNCHANGED <<sessions, steps, call, tx, instances>>

---------------------------------------------------------------------------
(* Direct calls of the pure functions *)

MuscleGroupLabels ==
    BIG_MUSCLE_GROUPS \cup SMALL_MUSCLE_GROUPS \cup {"Forearms", "Traps", "Other"}

MaxTotalWeeks == 4

\* Logged weights in hundredths.  None makes w + increase end in exactly 5
\* hundredths, where the binary value of the float decides the rounding.
ProjectionWeights ==
    {0, 4, 10, 250, 1004, 5000, 9990, 10000, 10010, 12000, 12345, 20020}

CallGetSetsForWeek ==
    \E mg \in MuscleGroupLabels, w \in 1..MaxWeek, tw \in (-1)..MaxTotalWeeks :
        /\ call' = [fn |-> "get_sets_for_week", muscle_group |-> mg,
                    week_number |-> w, total_weeks |-> tw,
                    result |-> GetSetsForWeek(mg, w, tw)]
        /\ UNCHANGED <<sessions, sets, last, steps, tx, instances, inflight>>

\* target_weight as create_workout_session and get_workout_session compute it
\* from one logged weight
CallProjectWeight ==
    \E w \in ProjectionWeights :
        /\ call' = [fn |-> "project_weight", weight |-> w,
                    generated |-> GenTargetWeight(w),
                    refreshed |-> RefreshTargetWeight(Null, w)]
        /\ UNCHANGED <<sessions, sets, last, steps, tx, instances, inflight>>

---------------------------------------------------------------------------
(* Claims about the pure functions, checked under SpecPure *)

\* C1: deload rule.  For every muscle-group label and every total_weeks > 0,
\* get_sets_for_week(muscle_group, total_weeks, total_weeks) returns exactly 1.
C1_DeloadRule ==
    (/\ call.fn = "get_sets_for_week"
     /\ call.total_weeks > 0
     /\ call.week_number = call.total_weeks)
    => call.result = 1

C1_Witness ==
    /\ call.fn = "get_sets_for_week"
    /\ call.muscle_group = "Chest"
    /\ call.total_weeks = 3
    /\ call.week_number = 3
    /\ call.result = 1

C7_WeightProjection ==
    call.fn = "project_weight" =>
      LET w == call.weight
          exact40 == 40 * w + (IF w >= 10000 THEN w ELSE 10000)
      IN  IF w > 0
          THEN /\ call.generated = call.refreshed
               /\ call.generated % 10 = 0
               /\ 40 * call.generated - exact40 <= 200
               /\ exact40 - 40 * call.generated <= 200
               /\ call.generated >= w + 245
               /\ (w % 10 = 0) => call.generated >= w + 250
               /\ (w = 10000) => call.generated = 10250
          ELSE call.generated = Null /\ call.refreshed = Null

\* A two-decimal weight whose projection rounds down: 10.04 -> 12.5
C7_Witness ==
    /\ call.fn = "project_weight"
    /\ call.weight = 1004
    /\ call.generated = 1250
    /\ call.refreshed = 1250

\* C7 as stated: the projected target is always at least w + 2.5.
C7_AlwaysAtLeastPlus250 ==
    (call.fn = "project_weight" /\ call.weight > 0) =>
      /\ call.generated = call.refreshed
      /\ call.generated >= call.weight + 250

---------------------------------------------------------------------------
(* Claims about session creation, checked under SpecGen.  They are read in *)
(* the state reached by the create call: the session it created is         *)
(* last.session_id, and the previous or source session still holds the     *)
(* rows the call read.                                                     *)

Created == last.op = "create_workout_session" /\ last.result = 201

CreatedSession == SessionById(last.session_id)

CreatedSets == SetsOf(sets, last.session_id)

\* Same-instance previous sessions of the created session
CreatedPrevs ==
    IF CreatedSession.week_number > 1
    THEN PrevCandidates(sessions, CreatedSession.mesocycle_instance_id,
                        CreatedSession.user_id, CreatedSession.week_number,
                        CreatedSession.day_number)
    ELSE {}

\* The request named a source session
SourceGiven ==
    /\ CreatedSession.week_number = 1
    /\ last.source_instance_id # Null
    /\ last.source_week_number # Null

\* Sessions the source reference of the create call designates
CreatedSources ==
    IF SourceGiven
    THEN SourceCandidates(sessions, last.source_instance_id,
                          CreatedSession.user_id, last.source_week_number,
                          CreatedSession.day_number)
    ELSE {}

CreatedTotalWeeks == TotalWeeks(CreatedSession.workout_template_id)

\* The template exercises of the created session (none without a template)
CreatedTemplateExercises ==
    IF TemplateExists(CreatedSession.workout_template_id)
    THEN LET e == TemplateTable[CreatedSession.workout_template_id].exercises
         IN  {e[i] : i \in 1..Len(e)}
    ELSE {}

ExercisesIn(rows) == {w.exercise_id : w \in rows}

\* The sets of one exercise are numbered 1..n, one row each
NumberedOneTo(rows, n) ==
    /\ Cardinality(rows) = n
    /\ {w.set_number : w \in rows} = 1..n

\* What fresh-from-template generation leaves in the created session
FreshFromTemplatePost ==
    /\ ExercisesIn(CreatedSets) = {te.exercise_id : te \in CreatedTemplateExercises}
    /\ \A te \in CreatedTemplateExercises :
         LET mine == {w \in CreatedSets : w.exercise_id = te.exercise_id}
             n == GetSetsForWeek(MuscleGroupOf(te.exercise_id),
                                 CreatedSession.week_number, CreatedTotalWeeks)
         IN  /\ NumberedOneTo(mine, n)
             /\ \A w \in mine :
                  /\ w.target_weight = Null
                  /\ w.target_reps = te.target_reps_max
                  /\ w.target_rir = te.starting_rir
                  /\ w.weight = 0
                  /\ w.reps = 0
                  /\ w.order_index = te.order_index * 100 + w.set_number

\* C3: a session created with no same-instance previous session and no
\* source session gets, for each template exercise, exactly
\* get_sets_for_week(muscle_group, week_number, total_weeks) sets numbered
\* 1..n with target_weight null, target_reps = target_reps_max, target_rir =
\* starting_rir, weight 0, reps 0 and order_index = order_index * 100 + set_number.
C3_FreshFromTemplate ==
    (Created /\ CreatedPrevs = {} /\ CreatedSources = {}) => FreshFromTemplatePost

C3_Witness ==
    /\ Created
    /\ CreatedPrevs = {}
    /\ CreatedSources = {}
    /\ CreatedSession.workout_template_id = 1
    /\ CreatedSession.week_number = 1
    /\ Cardinality(CreatedSets) = 5

\* C4: in a week-1 session created from a template (no previous session, no
\* source session) each template exercise has exactly target_sets sets,
\* numbered 1..target_sets, with weight 0 and reps 0.
C4_CountIsTargetSets ==
    (/\ Created
     /\ CreatedSession.week_number = 1
     /\ CreatedPrevs = {}
     /\ CreatedSources = {})
    => \A te \in CreatedTemplateExercises :
         LET mine == {w \in CreatedSets : w.exercise_id = te.exercise_id}
         IN  /\ NumberedOneTo(mine, te.target_sets)
             /\ \A w \in mine : w.weight = 0 /\ w.reps = 0

\* The exercises of a previous or source session and their rows
RowsOf(session, exercise_id) == SetsOfExercise(sets, session.id, exercise_id)

\* C5: in a session of week >= 2 created with a same-instance previous
\* session, every exercise of the previous session gets 1 set when
\* week_number = total_weeks > 0 and otherwise max(1, get_sets_for_week(mg,
\* week_number, total_weeks) + offset) sets, offset being the number of set
\* rows of that exercise in the previous session minus get_sets_for_week(mg,
\* prev.week_number, total_weeks).
C5_CarryForwardCount ==
    (Created /\ CreatedSession.week_number >= 2 /\ CreatedPrevs # {}) =>
      \E prev \in CreatedPrevs :
        \A e \in ExercisesIn(SetsOf(sets, prev.id)) :
          LET mg == MuscleGroupOf(e)
              tw == CreatedTotalWeeks
              week == CreatedSession.week_number
              actual_prev == Cardinality(RowsOf(prev, e))
              offset == actual_prev - GetSetsForWeek(mg, prev.week_number, tw)
              formula == GetSetsForWeek(mg, week, tw) + offset
              expected == IF tw > 0 /\ week = tw THEN 1
                          ELSE IF formula >= 1 THEN formula ELSE 1
          IN  Cardinality({w \in CreatedSets : w.exercise_id = e}) = expected

\* Week 2 after a week 1 to which the user added a third Chest set (offset
\* +1): the formula's 3 sets become 4
C5_Witness ==
    /\ Created
    /\ CreatedSession.week_number = 2
    /\ CreatedSession.workout_template_id = 1
    /\ \E prev \in CreatedPrevs :
         /\ Cardinality(RowsOf(prev, 1)) = 3
         /\ prev.week_number = 1
    /\ Cardinality({w \in CreatedSets : w.exercise_id = 1}) = 4

\* Rows of a set of rows that come first / last in (order_index, set_number)
FirstInOrder(rows) ==
    {r \in rows : \A q \in rows :
        \/ r.order_index < q.order_index
        \/ (r.order_index = q.order_index /\ r.set_number <= q.set_number)}

LastInOrder(rows) ==
    {r \in rows : \A q \in rows :
        \/ r.order_index > q.order_index
        \/ (r.order_index = q.order_index /\ r.set_number >= q.set_number)}

\* t is w + max(0.025 w, 2.5) rounded to one decimal (w > 0, in hundredths)
IsProjectionOf(t, w) ==
    LET exact40 == 40 * w + (IF w >= 10000 THEN w ELSE 10000)
    IN  /\ t % 10 = 0
        /\ 40 * t - exact40 <= 200
        /\ exact40 - 40 * t <= 200

\* C6: a carried-forward set number k of an exercise takes, when the previous
\* session has a set k of that exercise (matched), target_weight = the
\* projection of matched.weight if that is > 0 and null otherwise, and
\* target_reps = matched.reps if > 0 and matched.target_reps otherwise; when
\* it has none, target_weight null and target_reps and target_rir of the
\* exercise's last previous set; target_rir is that of the matched-or-last
\* set, and the new set's weight and reps are 0.
C6_CarryForwardTargets ==
    (Created /\ CreatedSession.week_number >= 2 /\ CreatedPrevs # {}) =>
      \E prev \in CreatedPrevs :
        \A ws \in CreatedSets :
          LET rows == RowsOf(prev, ws.exercise_id)
              same == {r \in rows : r.set_number = ws.set_number}
          IN  /\ ws.weight = 0
              /\ ws.reps = 0
              /\ rows # {}
              /\ IF same # {}
                 THEN \E matched \in FirstInOrder(same) :
                        /\ IF matched.weight > 0
                           THEN IsProjectionOf(ws.target_weight, matched.weight)
                           ELSE ws.target_weight = Null
                        /\ ws.target_reps = (IF matched.reps > 0 THEN matched.reps
                                             ELSE matched.target_reps)
                        /\ ws.target_rir = matched.target_rir
                 ELSE \E fallback \in LastInOrder(rows) :
                        /\ ws.target_weight = Null
                        /\ ws.target_reps = fallback.target_reps
                        /\ ws.target_rir = fallback.target_rir

\* Week 2 after a week 1 whose Chest set 1 was logged 100 x 10: set 1 targets
\* 102.5 x 10, set 3 has no match and takes the last set's targets
C6_Witness ==
    /\ Created
    /\ CreatedSession.week_number = 2
    /\ \E prev \in CreatedPrevs :
         \E m \in RowsOf(prev, 1) : m.set_number = 1 /\ m.weight = 10000 /\ m.reps = 10
    /\ \E ws \in CreatedSets :
         /\ ws.exercise_id = 1 /\ ws.set_number = 1
         /\ ws.target_weight = 10250 /\ ws.target_reps = 10
    /\ \E ws \in CreatedSets :
         /\ ws.exercise_id = 1 /\ ws.set_number = 3
         /\ ws.target_weight = Null /\ ws.target_reps = 12

\* C8: a week-1 session created with a source reference whose source session
\* exists gets, for each exercise of the source session,
\* get_sets_for_week(mg, 1, total_weeks) sets whose target_weight is the
\* source set's logged weight unchanged (null if it is 0 or there is no set
\* with that number) and whose target_reps is the source set's logged reps
\* if > 0 and the fallback set's target_reps otherwise; without a source
\* session the result is that of fresh-from-template generation.
C8_CrossBlock ==
    (Created /\ SourceGiven) =>
      IF CreatedSources = {}
      THEN FreshFromTemplatePost
      ELSE \E source \in CreatedSources :
             LET source_rows == IF source.id = last.session_id THEN {}
                                ELSE SetsOf(sets, source.id)
             IN  /\ ExercisesIn(CreatedSets) = ExercisesIn(source_rows)
                 /\ \A e \in ExercisesIn(source_rows) :
                      NumberedOneTo({w \in CreatedSets : w.exercise_id = e},
                                    GetSetsForWeek(MuscleGroupOf(e), 1,
                                                   CreatedTotalWeeks))
                 /\ \A ws \in CreatedSets :
                      LET rows == {r \in source_rows : r.exercise_id = ws.exercise_id}
                          same == {r \in rows : r.set_number = ws.set_number}
                      IN  IF same # {}
                          THEN \E source_set \in FirstInOrder(same) :
                                 /\ ws.target_weight =
                                      (IF source_set.weight > 0
                                       THEN source_set.weight ELSE Null)
                                 /\ ws.target_reps =
                                      (IF source_set.reps > 0 THEN source_set.reps
                                       ELSE source_set.target_reps)
                          ELSE \E fallback \in LastInOrder(rows) :
                                 /\ ws.target_weight = Null
                                 /\ ws.target_reps = fallback.target_reps

\* Week 1 of block 2 continuing week 1 of block 1, whose Chest set 1 was
\* logged 100 x 10
C8_Witness ==
    /\ Created
    /\ SourceGiven
    /\ CreatedSession.mesocycle_instance_id = 2
    /\ \E source \in CreatedSources :
         /\ source.mesocycle_instance_id = 1
         /\ \E r \in RowsOf(source, 1) :
              r.set_number = 1 /\ r.weight = 10000 /\ r.reps = 10
    /\ \E ws \in CreatedSets :
         /\ ws.exercise_id = 1 /\ ws.set_number = 1
         /\ ws.target_weight = 10000 /\ ws.target_reps = 10

\* C8, second witness: the source reference designates no session and the
\* template's sets are generated
C8_FallThroughReached ==
    /\ Created
    /\ SourceGiven
    /\ CreatedSources = {}
    /\ Cardinality(CreatedSets) = 5

---------------------------------------------------------------------------
(* Claims about completed sessions, checked under SpecMut.  last' names    *)
(* the request a step served and the unprimed variables its pre-state.     *)

ExerciseMutations ==
    {"swap_exercise", "remove_exercise", "add_exercise",
     "add_set_to_exercise", "remove_set_from_exercise"}

CompletedSessionIds == {s.id : s \in {c \in sessions : c.status = "completed"}}

\* C9: swap exercise, remove exercise, add exercise, add set to exercise and
\* remove set from exercise, called on a session whose status is completed,
\* fail with an error (400) and leave every set of the session unchanged,
\* whatever the other arguments are.
C9_CompletedGuard ==
    [][(/\ steps' = steps + 1
        /\ last'.op \in ExerciseMutations
        /\ last'.session_id \in CompletedSessionIds)
       => /\ last'.result = 400
          /\ SetsOf(sets', last'.session_id) = SetsOf(sets, last'.session_id)
          /\ sessions' = sessions]_vars

\* An exercise mutation was refused on a completed session that has sets
C9_Witness ==
    /\ last.op \in ExerciseMutations
    /\ last.result = 400
    /\ last.session_id \in CompletedSessionIds
    /\ SetsOf(sets, last.session_id) # {}

\* C10: once a session's status is completed, no operation of the API adds,
\* deletes or changes a set of that session while the status stays completed.
C10_CompletedSetsReadOnly ==
    [][\A s \in sessions :
         (s.status = "completed" /\ s \in sessions')
         => SetsOf(sets', s.id) = SetsOf(sets, s.id)]_vars

---------------------------------------------------------------------------
(* Claims about the exercise management endpoints, checked under SpecMut.  *)
(* A successful call is read in the state it leaves (last names the call), *)
(* a call's effect as a step from its pre-state.                           *)

\* C11: after a successful swap_exercise(old_exercise_id, new_exercise_id) no
\* set of the session references old_exercise_id, and every migrated set has
\* weight 0, reps 0, target_weight null and skipped 0, for every choice of
\* old and new exercise ids for which the call succeeds.
C11_SwapPostcondition ==
    [][(/\ steps' = steps + 1
        /\ last'.op = "swap_exercise"
        /\ last'.result = 200)
       => LET sid == last'.session_id
              old_sets == SetsOfExercise(sets, sid, last'.old_exercise_id)
          IN  /\ SetsOfExercise(sets', sid, last'.old_exercise_id) = {}
              /\ \A ws \in old_sets :
                   \E m \in sets' :
                     /\ m.id = ws.id
                     /\ m.exercise_id = last'.new_exercise_id
                     /\ m.weight = 0
                     /\ m.reps = 0
                     /\ m.target_weight = Null
                     /\ m.skipped = 0]_vars

\* The session a step's request names is open to the exercise endpoints
TargetOpen ==
    \E s \in sessions : s.id = last'.session_id /\ s.status # "completed"

\* C12: remove_set_from_exercise on an exercise with exactly one set fails
\* (400) and changes nothing; on an exercise with n >= 2 sets (of a session
\* that is not completed) it deletes exactly one set, one with the highest
\* set_number; so the exercise's set count never reaches 0 through it.
C12_RemoveSet ==
    [][(/\ steps' = steps + 1
        /\ last'.op = "remove_set_from_exercise")
       => LET sid == last'.session_id
              rows == SetsOfExercise(sets, sid, last'.exercise_id)
              n == Cardinality(rows)
          IN  /\ n = 1 => (last'.result = 400 /\ sets' = sets)
              /\ (n >= 2 /\ TargetOpen) =>
                   /\ last'.result = 200
                   /\ \E top \in rows :
                        /\ \A v \in rows : v.set_number <= top.set_number
                        /\ sets' = sets \ {top}
              /\ n >= 1 => SetsOfExercise(sets', sid, last'.exercise_id) # {}]_vars

\* The last remaining Chest set, left by an earlier remove-set call, was
\* refused
C12_Witness ==
    /\ last.op = "remove_set_from_exercise"
    /\ last.result = 400
    /\ \E s \in sessions : s.id = last.session_id /\ s.status = "in_progress"
    /\ Cardinality(SetsOfExercise(sets, last.session_id, last.exercise_id)) = 1
    /\ Cardinality(SetsOf(sets, last.session_id)) = 4

\* C13: add_set_to_exercise on an exercise that has sets in a session that is
\* not completed adds exactly one set, with set_number = (max set_number of
\* the exercise) + 1, with order_index, target_reps and target_rir of a set
\* with that max set_number, and with weight 0 and reps 0; on an exercise
\* with no sets in the session it fails and changes nothing.
C13_AddSet ==
    [][(/\ steps' = steps + 1
        /\ last'.op = "add_set_to_exercise")
       => LET sid == last'.session_id
              rows == SetsOfExercise(sets, sid, last'.exercise_id)
          IN  /\ (rows # {} /\ TargetOpen) =>
                   /\ last'.result = 201
                   /\ \E top \in rows, new \in sets' \ sets :
                        /\ \A v \in rows : v.set_number <= top.set_number
                        /\ sets' = sets \cup {new}
                        /\ new.workout_session_id = sid
                        /\ new.exercise_id = last'.exercise_id
                        /\ new.set_number = top.set_number + 1
                        /\ new.order_index = top.order_index
                        /\ new.target_reps = top.target_reps
                        /\ new.target_rir = top.target_rir
                        /\ new.weight = 0
                        /\ new.reps = 0
              /\ rows = {} => (last'.result # 201 /\ sets' = sets)]_vars

\* A fourth set was appended to the three Biceps sets of week 1
C13_Witness ==
    /\ last.op = "add_set_to_exercise"
    /\ last.result = 201
    /\ last.exercise_id = 2
    /\ \E new \in SetsOfExercise(sets, last.session_id, 2) :
         /\ new.id = SetMax({w.id : w \in sets})
         /\ new.set_number = 4
         /\ new.order_index = 103
         /\ new.target_reps = 10

\* C14: a successful add_exercise appends exactly
\* get_sets_for_week(muscle_group, session.week_number, total_weeks) sets of
\* the new exercise, numbered 1..n, each with order_index = (max order_index
\* of the session's sets before the call, 0 if none) + 100, target_weight
\* null, target_reps null, target_rir 3, weight 0 and reps 0, and leaves all
\* existing sets unchanged.
C14_AddExercise ==
    [][(/\ steps' = steps + 1
        /\ last'.op = "add_exercise"
        /\ last'.result = 200)
       => LET sid == last'.session_id
              session == SessionById(sid)
              before == SetsOf(sets, sid)
              max_before == IF before = {} THEN 0
                            ELSE SetMax({w.order_index : w \in before})
              added == sets' \ sets
              n == GetSetsForWeek(MuscleGroupOf(last'.exercise_id),
                                  session.week_number,
                                  TotalWeeks(session.workout_template_id))
          IN  /\ sets \subseteq sets'
              /\ NumberedOneTo(added, n)
              /\ \A w \in added :
                   /\ w.workout_session_id = sid
                   /\ w.exercise_id = last'.exercise_id
                   /\ w.order_index = max_before + 100
                   /\ w.target_weight = Null
                   /\ w.target_reps = Null
                   /\ w.target_rir = 3
                   /\ w.weight = 0
                   /\ w.reps = 0]_vars

\* Forearms added to week 1 of template 1, whose last set sits at order 103
C14_Witness ==
    /\ last.op = "add_exercise"
    /\ last.result = 200
    /\ last.exercise_id = 3
    /\ LET added == SetsOfExercise(sets, last.session_id, 3)
       IN  /\ Cardinality(added) = 2
           /\ \A w \in added : w.order_index = 203 /\ w.target_rir = 3
    /\ Cardinality(SetsOf(sets, last.session_id)) = 7

\* C14, second witness: an exercise added to a session that has no sets
C14_AddedToEmptySession ==
    /\ last.op = "add_exercise"
    /\ last.result = 200
    /\ \A w \in SetsOf(sets, last.session_id) :
         w.exercise_id = last.exercise_id /\ w.order_index = 100
    /\ SetsOf(sets, last.session_id) # {}

\* C15: add_exercise for an exercise that already has a set in the session
\* fails with 400 (already exists) and leaves the sets unchanged;
\* add_exercise for an exercise id with no exercise row fails with 404 (not
\* found) and leaves the sets unchanged.  The error kinds are those of a
\* session that is not completed.
C15_AddExerciseRejected ==
    [][(/\ steps' = steps + 1
        /\ last'.op = "add_exercise")
       => LET sid == last'.session_id
              e == last'.exercise_id
              present == SetsOfExercise(sets, sid, e) # {}
          IN  /\ (present /\ ExerciseExists(e)) =>
                   /\ sets' = sets
                   /\ TargetOpen => last'.result = 400
              /\ ~ExerciseExists(e) =>
                   /\ sets' = sets
                   /\ TargetOpen => last'.result = 404]_vars

\* Chest, already in the in-progress session, was refused
C15_Witness ==
    /\ last.op = "add_exercise"
    /\ last.result = 400
    /\ last.exercise_id = 1
    /\ \E s \in sessions : s.id = last.session_id /\ s.status = "in_progress"
    /\ SetsOfExercise(sets, last.session_id, 1) # {}

\* C15, second witness: an exercise id with no row was refused
C15_UnknownExerciseRefused ==
    /\ last.op = "add_exercise"
    /\ last.result = 404
    /\ ~ExerciseExists(last.exercise_id)
    /\ \E s \in sessions : s.id = last.session_id /\ s.status = "in_progress"

\* Rows a and b of one session in the order (order_index, set_number)
StrictlyBefore(a, b) ==
    \/ a.order_index < b.order_index
    \/ a.order_index = b.order_index /\ a.set_number < b.set_number

\* C16 (checked under SpecNum): within each session the set_numbers of each
\* exercise are pairwise distinct and are exactly 1..N, and no set of another
\* exercise lies between two sets of one exercise when the session's sets
\* are ordered by (order_index, set_number).
C16_SetNumbering ==
    \A s \in sessions :
      LET mine == SetsOf(sets, s.id)
      IN  \A e \in ExercisesIn(mine) :
            LET rows == {w \in mine : w.exercise_id = e}
            IN  /\ NumberedOneTo(rows, Cardinality(rows))
                /\ \A a \in rows, b \in rows, x \in mine \ rows :
                     ~(StrictlyBefore(a, x) /\ StrictlyBefore(x, b))

---------------------------------------------------------------------------
(* Claims about the read-time refresh, checked under SpecRead *)

\* The sets of week 1 and week 2 of the first block as POST wrote them
Week1Created ==
    WithIds(GenerateSetsFromTemplate(1, 1, 1, TotalWeeks(1)), 1)

Week2Created ==
    WithIds(CarryForwardFrom(2, OrderedSets(Week1Created, "asc"), 1, 2,
                             TotalWeeks(1)),
            NextSetId(Week1Created))

\* The session a successful read just returned
ReadSession == SessionById(last.session_id)

Read == last.op = "get_workout_session" /\ last.result = 200

\* Same-instance previous sessions of a session
PrevsOf(session) ==
    PrevCandidates(sessions, session.mesocycle_instance_id, session.user_id,
                   session.week_number, session.day_number)

\* C17: reading an in-progress session twice in a row, with no change of the
\* previous session's sets in between, changes no target on the second read
\* and performs no write (dirty stays false).
C17_RefreshIdempotent ==
    [][(/\ steps' = steps + 1
        /\ Read
        /\ last'.op = "get_workout_session"
        /\ last'.result = 200
        /\ last'.session_id = last.session_id)
       => (sets' = sets /\ last'.dirty = FALSE)]_vars

\* The second of two reads of week 2 after the first one raised the Chest
\* target to 102.5 from a week 1 logged 100 x 10
C17_Witness ==
    /\ Read
    /\ last.again
    /\ last.dirty = FALSE
    /\ ReadSession.status = "in_progress"
    /\ ReadSession.week_number = 2
    /\ \E ws \in SetsOf(sets, last.session_id) :
         /\ ws.target_weight = 10250
         /\ \E prev \in PrevsOf(ReadSession) : \E m \in SetsOf(sets, prev.id) :
              /\ m.exercise_id = ws.exercise_id
              /\ m.set_number = ws.set_number
              /\ m.weight = 10000

\* C18: after reading an in-progress session with week_number > 1 that has a
\* same-instance previous session, every set that matches a set of the
\* previous session by (exercise_id, set_number) has target_reps = the
\* matched set's reps when those are > 0 and target_weight = the projection
\* of the matched set's weight when that is > 0, also when the previous
\* session was logged after this session was created.
C18_RefreshPostcondition ==
    (/\ Read
     /\ ReadSession.status = "in_progress"
     /\ ReadSession.week_number > 1
     /\ PrevsOf(ReadSession) # {})
    => \E prev \in PrevsOf(ReadSession) :
         \A ws \in SetsOf(sets, last.session_id) :
           LET matches == {m \in SetsOf(sets, prev.id) :
                             /\ m.exercise_id = ws.exercise_id
                             /\ m.set_number = ws.set_number}
           IN  matches # {} =>
                 \E m \in matches :
                   /\ m.reps > 0 => ws.target_reps = m.reps
                   /\ m.weight > 0 => IsProjectionOf(ws.target_weight, m.weight)

\* Week 2, created before week 1 was logged 100 x 10, read afterwards: the
\* read wrote the targets 102.5 x 10
C18_Witness ==
    /\ Read
    /\ last.dirty
    /\ ReadSession.week_number = 2
    /\ \E ws \in SetsOf(sets, last.session_id) :
         /\ ws.exercise_id = 1
         /\ ws.set_number = 1
         /\ ws.target_weight = 10250
         /\ ws.target_reps = 10
         /\ ws.id \in {w.id : w \in Week2Created}

\* C19: reading a session whose status is completed or skipped, or whose
\* week_number is 1, or that has no same-instance previous session, changes
\* no field of any set, whatever is logged in other sessions.
C19_RefreshGated ==
    [][(/\ steps' = steps + 1
        /\ last'.op = "get_workout_session"
        /\ last'.result = 200
        /\ LET session == SessionById(last'.session_id)
           IN  \/ session.status \in {"completed", "skipped"}
               \/ session.week_number = 1
               \/ PrevsOf(session) = {})
       => (sets' = sets /\ last'.dirty = FALSE)]_vars

\* A completed week 2 was read while week 1 holds a logged 100 x 10 that its
\* targets do not reflect
C19_Witness ==
    /\ Read
    /\ ReadSession.status = "completed"
    /\ ReadSession.week_number = 2
    /\ \E ws \in SetsOf(sets, last.session_id) :
         /\ ws.target_weight = Null
         /\ \E prev \in PrevsOf(ReadSession) : \E m \in SetsOf(sets, prev.id) :
              /\ m.exercise_id = ws.exercise_id
              /\ m.set_number = ws.set_number
              /\ m.weight = 10000

---------------------------------------------------------------------------
(* Claim about transactions, checked under SpecTx *)

\* C20: the sets written by one session creation or one swap, add-exercise
\* or remove-exercise call become visible together or not at all: the
\* committed rows are those from before the call until its commit, and those
\* with every write of the call applied after it; no committed state holds
\* only part of the call's writes.
C20_AtomicWrites ==
    tx.state # "idle" =>
      LET none == tx.before
          all == ApplyWrites(tx.before, tx.writes, Len(tx.writes))
      IN  IF tx.state = "committed"
          THEN Db(sessions, sets) = all
          ELSE Db(sessions, sets) = none

\* A creation that died after flushing the session and adding two of its
\* five sets left nothing behind
C20_Witness ==
    /\ tx.state = "rolled_back"
    /\ tx.op = "create_workout_session"
    /\ tx.staged = 3
    /\ Len(tx.writes) = 6
    /\ sessions = tx.before.sessions
    /\ sets = tx.before.sets

\* C20, second witness: a committed swap shows all of its updates
C20_CommittedTogether ==
    /\ tx.state = "committed"
    /\ tx.op = "swap_exercise"
    /\ Len(tx.writes) >= 2
    /\ Db(sessions, sets) # tx.before

---------------------------------------------------------------------------
(* Claims about the session table *)

SameSlot(a, b) ==
    /\ a.user_id = b.user_id
    /\ a.mesocycle_instance_id = b.mesocycle_instance_id
    /\ a.week_number = b.week_number
    /\ a.day_number = b.day_number

\* C21: after any sequence of create-session calls there is at most one
\* session per (user, mesocycle instance, week_number, day_number).
C21_SessionUniqueness ==
    \A a \in sessions, b \in sessions : SameSlot(a, b) => a = b

\* C22: after any sequence of start-instance, update-instance-status and
\* delete-instance calls, each user has at most one mesocycle instance whose
\* status is active.
C22_SingleActiveBlock ==
    \A a \in instances, b \in instances :
      (a.user_id = b.user_id /\ a.status = "active" /\ b.status = "active")
      => a = b

---------------------------------------------------------------------------
(* Claim about missing references, checked under SpecTol *)

C23_TemplateAbsent ==
    /\ Created
    /\ ~TemplateExists(CreatedSession.workout_template_id)
    /\ CreatedSets = {}

C23_TemplateEmpty ==
    /\ Created
    /\ CreatedSession.workout_template_id = 4
    /\ CreatedSets = {}

C23_SourceAbsent ==
    /\ Created
    /\ SourceGiven
    /\ CreatedSources = {}
    /\ 9 \in ExercisesIn(CreatedSets)

C23_SourcePresent ==
    /\ Created
    /\ SourceGiven
    /\ CreatedSources # {}
    /\ 9 \in ExercisesIn(CreatedSets)

---------------------------------------------------------------------------
(* Claim about the previous-session query, checked under SpecPrev *)

\* Sessions of the same user, instance and day with a smaller week
EarlierSessions(session) ==
    {p \in sessions : /\ p.user_id = session.user_id
                      /\ p.mesocycle_instance_id = session.mesocycle_instance_id
                      /\ p.day_number = session.day_number
                      /\ p.week_number < session.week_number}

\* Those of the greatest week among them
NearestEarlier(session) ==
    {p \in EarlierSessions(session) :
       \A q \in EarlierSessions(session) : q.week_number <= p.week_number}

Range(seq) == {seq[i] : i \in 1..Len(seq)}

Unnumbered(rows) == {[w EXCEPT !.id = 0] : w \in rows}

\* C24: the previous session used by the generator and by the refresher is
\* the session of the same user, instance and day_number with the greatest
\* week_number strictly smaller than the session's own: the created sets
\* are those carried forward from it (from the template when there is
\* none), and after a read the targets agree with its sets; a nearer week
\* wins over an earlier one, and a session of another day, another instance
\* or a later week is never used.
C24_PreviousSession ==
    /\ (Created /\ CreatedSession.week_number > 1) =>
         LET s == CreatedSession
             tw == CreatedTotalWeeks
         IN  IF NearestEarlier(s) = {}
             THEN Unnumbered(CreatedSets) =
                    Range(TemplateFallback(s.id, s.workout_template_id,
                                           s.week_number, tw))
             ELSE \E p \in NearestEarlier(s), tie \in Ties :
                    Unnumbered(CreatedSets) =
                      Range(CarryForward(s.id, p, tie, s.week_number, tw))
    /\ (Read /\ RefreshApplies(ReadSession) /\ NearestEarlier(ReadSession) # {}) =>
         \E p \in NearestEarlier(ReadSession), tie \in Ties :
           \A ws \in SetsOf(sets, ReadSession.id) :
             RefreshedSet(ws, SetsOf(sets, p.id), tie) = ws

\* Week 3 was created after week 2 was deleted: it carries forward the logged
\* weight of week 1
C24_Witness ==
    /\ Created
    /\ CreatedSession.week_number = 3
    /\ {p.week_number : p \in EarlierSessions(CreatedSession)} = {1}
    /\ \E w \in CreatedSets : w.target_weight = 10250

\* C24, further cases: week 3 created with weeks 1 and 2 present and only
\* week 1 logged; week 3 read with weeks 1 and 2 present; a week 2 created
\* for another day while day 1 has sessions
C24_NearerWeekWins ==
    /\ Created
    /\ CreatedSession.week_number = 3
    /\ {p.week_number : p \in EarlierSessions(CreatedSession)} = {1, 2}
    /\ \E w \in SetsOf(sets, 1) : w.weight > 0
    /\ \A w \in CreatedSets : w.target_weight = Null

C24_ReadNearerWeek ==
    /\ Read
    /\ ReadSession.week_number = 3
    /\ ReadSession.status = "in_progress"
    /\ {p.week_number : p \in EarlierSessions(ReadSession)} = {1, 2}
    /\ \E w \in SetsOf(sets, 2) : w.weight > 0

C24_OtherDayIgnored ==
    /\ Created
    /\ CreatedSession.day_number = 2
    /\ CreatedSession.week_number = 2
    /\ CreatedSets # {}
    /\ \E p \in sessions : p.day_number = 1 /\ p.week_number = 1

C24_LaterWeekIgnored ==
    /\ Created
    /\ CreatedSession.week_number = 2
    /\ \E p \in sessions : /\ p.week_number = 3
                           /\ p.day_number = CreatedSession.day_number
                           /\ p.mesocycle_instance_id =
                                CreatedSession.mesocycle_instance_id

---------------------------------------------------------------------------
(* Claim about the source reference, checked under SpecSrc *)

\* The session row a create call has just written
JustCreated == CHOOSE s \in sessions' : s.id = last'.session_id

\* C25: for a session created with week_number > 1 the generated sets are
\* the same whatever source_instance_id and source_week_number are supplied
\* (including none): what the call writes is what the same call without a
\* source reference writes in the same database, whether a same-instance
\* previous session exists or not.
C25_SourceIgnoredAfterWeek1 ==
    [][(/\ steps' = steps + 1
        /\ last'.op = "create_workout_session"
        /\ last'.result = 201
        /\ JustCreated.week_number > 1)
       => \E outcome \in CreateOutcomes(JustCreated.user_id,
                                        JustCreated.mesocycle_instance_id,
                                        JustCreated.workout_template_id,
                                        JustCreated.week_number,
                                        JustCreated.day_number, Null, Null) :
            /\ sessions' = sessions \cup {outcome.session}
            /\ sets' = sets \cup WithIds(outcome.drafts, NextSetId(sets))]_vars

\* The sessions a source reference designates when the week is left aside
Designated ==
    {s \in sessions : /\ s.id # last.session_id
                      /\ s.mesocycle_instance_id = last.source_instance_id
                      /\ s.user_id = CreatedSession.user_id
                      /\ s.week_number = last.source_week_number
                      /\ s.day_number = CreatedSession.day_number}

\* Week 2 of the second block was created with a reference to week 1 of the
\* first block, which exists; the second block has no earlier session
C25_Witness ==
    /\ Created
    /\ CreatedSession.week_number = 2
    /\ CreatedSession.mesocycle_instance_id = 2
    /\ last.source_instance_id = 1
    /\ last.source_week_number = 1
    /\ Designated # {}
    /\ CreatedPrevs = {}
    /\ CreatedSets # {}

\* C25, second case: the same with a previous session in the instance
C25_WithPreviousSession ==
    /\ Created
    /\ CreatedSession.week_number = 2
    /\ last.source_instance_id # Null
    /\ last.source_week_number # Null
    /\ Designated # {}
    /\ CreatedPrevs # {}
    /\ CreatedSets # {}

---------------------------------------------------------------------------
(* Claim about what swap_exercise leaves alone, checked under SpecMut *)

\* C26: a successful swap_exercise leaves target_reps, target_rir,
\* set_number and order_index of every migrated set unchanged, leaves every
\* set of every other exercise unchanged, and does not change the number of
\* sets in the session.
C26_SwapFrame ==
    [][(/\ steps' = steps + 1
        /\ last'.op = "swap_exercise"
        /\ last'.result = 200)
       => LET sid == last'.session_id
              old_sets == SetsOfExercise(sets, sid, last'.old_exercise_id)
          IN  /\ \A ws \in old_sets :
                   \E m \in sets' :
                     /\ m.id = ws.id
                     /\ m.workout_session_id = sid
                     /\ m.target_reps = ws.target_reps
                     /\ m.target_rir = ws.target_rir
                     /\ m.set_number = ws.set_number
                     /\ m.order_index = ws.order_index
              /\ \A ws \in sets \ old_sets : ws \in sets'
              /\ Cardinality(SetsOf(sets', sid)) = Cardinality(SetsOf(sets, sid))
              /\ {w.id : w \in sets'} = {w.id : w \in sets}]_vars

\* Biceps was swapped for Forearms in a session that also holds Chest: the
\* migrated sets keep their targets of 10 reps at 2 in reserve
C26_Witness ==
    /\ last.op = "swap_exercise"
    /\ last.result = 200
    /\ last.old_exercise_id = 2
    /\ last.new_exercise_id = 3
    /\ SetsOfExercise(sets, last.session_id, 1) # {}
    /\ SetsOfExercise(sets, last.session_id, 3) # {}
    /\ \A w \in SetsOfExercise(sets, last.session_id, 3) :
         w.target_reps = 10 /\ w.target_rir = 2 /\ w.order_index > 100

---------------------------------------------------------------------------
(* Claim about the lineup of a carried-forward session, checked under     *)
(* SpecLineup                                                              *)

\* Some set of exercise a comes before every set of exercise b
AppearsFirst(rows, a, b) ==
    \E ra \in {r \in rows : r.exercise_id = a} :
      \A rb \in {r \in rows : r.exercise_id = b} : StrictlyBefore(ra, rb)

\* C27: a session created by carry-forward contains exactly the exercises
\* that have sets in the previous session at creation time, written in order
\* of first appearance by (order_index, set_number), each new set inheriting
\* the order_index of its matched-or-last previous set; so an exercise
\* swapped in, added or removed in week w is swapped in, present or absent in
\* week w+1, whatever the template lists.
C27_LineupCarryOver ==
    (Created /\ CreatedPrevs # {}) =>
      \E prev \in CreatedPrevs :
        LET prows == SetsOf(sets, prev.id)
        IN  /\ ExercisesIn(CreatedSets) = ExercisesIn(prows)
            /\ \A ws \in CreatedSets :
                 LET rows == RowsOf(prev, ws.exercise_id)
                     same == {r \in rows : r.set_number = ws.set_number}
                 IN  IF same # {}
                     THEN \E matched \in FirstInOrder(same) :
                            ws.order_index = matched.order_index
                     ELSE \E fallback \in LastInOrder(rows) :
                            ws.order_index = fallback.order_index
            /\ \A a \in CreatedSets, b \in CreatedSets :
                 (/\ a.exercise_id # b.exercise_id
                  /\ AppearsFirst(prows, a.exercise_id, b.exercise_id))
                 => a.id < b.id

\* Week 2 after Biceps was swapped for Forearms in week 1: it holds Chest and
\* Forearms, which template 1 does not list, and not Biceps
C27_Witness ==
    /\ Created
    /\ CreatedSession.week_number = 2
    /\ CreatedSession.workout_template_id = 1
    /\ CreatedPrevs # {}
    /\ ExercisesIn(CreatedSets) = {1, 3}

\* C27, further cases: an exercise removed in week 1 is absent from week 2;
\* an exercise added to week 1 is present in week 2, after the others
C27_RemovedStaysAbsent ==
    /\ Created
    /\ CreatedSession.week_number = 2
    /\ CreatedSession.workout_template_id = 1
    /\ CreatedPrevs # {}
    /\ ExercisesIn(CreatedSets) = {1}

C27_AddedStaysPresent ==
    /\ Created
    /\ CreatedSession.week_number = 2
    /\ CreatedSession.workout_template_id = 1
    /\ CreatedPrevs # {}
    /\ ExercisesIn(CreatedSets) = {1, 2, 3}
    /\ \A a \in CreatedSets, b \in CreatedSets :
         (a.exercise_id = 2 /\ b.exercise_id = 3) => a.id < b.id

---------------------------------------------------------------------------
(* Claim about concurrent requests, checked under SpecConc *)

\* C28: when two add-set calls, or two add-exercise calls, on the same
\* session and exercise run concurrently, the committed result is that of
\* some serial order of the two: no exercise of a session ends up with two
\* sets carrying the same set_number, and no session ends up with the same
\* exercise added twice.
C28_SerialOutcome ==
    \A a \in sets, b \in sets :
      (/\ a.workout_session_id = b.workout_session_id
       /\ a.exercise_id = b.exercise_id
       /\ a.set_number = b.set_number)
      => a = b

---------------------------------------------------------------------------
(* Claim about the generator and the refresher together, checked under     *)
(* SpecAgree                                                               *)

\* C29: reading a session immediately after it was created by carry-forward,
\* with no change to the previous session in between, changes no target_reps
\* and no target_weight.
C29_GeneratorRefresherAgree ==
    [][(/\ steps' = steps + 1
        /\ Created
        /\ CreatedPrevs # {}
        /\ last'.op = "get_workout_session"
        /\ last'.result = 200
        /\ last'.session_id = last.session_id)
       => \A ws \in CreatedSets :
            \E m \in sets' : /\ m.id = ws.id
                             /\ m.target_reps = ws.target_reps
                             /\ m.target_weight = ws.target_weight]_vars

---------------------------------------------------------------------------
(* Claim about the completion timestamp, checked under SpecMut *)

\* C30: when a session's status is updated to completed its completed_at
\* becomes non-null, and once completed_at is non-null no later update
\* (changing status back to in_progress or skipped, or completing again)
\* changes or clears it.
C30_CompletedAtSetOnce ==
    [][\A s \in sessions : \A t \in sessions' :
         s.id = t.id =>
           /\ (/\ last'.op = "update_workout_session"
               /\ last'.result = 200
               /\ last'.session_id = t.id
               /\ steps' = steps + 1
               /\ t.status = "completed") => t.completed_at # Null
           /\ s.completed_at # Null => t.completed_at = s.completed_at]_vars

\* A session completed by the second call, set back to in_progress by the
\* third, still carries the timestamp of the second
C30_Witness ==
    /\ last.op = "update_workout_session"
    /\ last.result = 200
    /\ steps = 3
    /\ \E s \in sessions : /\ s.id = last.session_id
                           /\ s.status = "in_progress"
                           /\ s.completed_at = 2

\* C30, second case: completed by the second call and again by the third
C30_CompletedAgain ==
    /\ last.op = "update_workout_session"
    /\ last.result = 200
    /\ steps = 3
    /\ \E s \in sessions : /\ s.id = last.session_id
                           /\ s.status = "completed"
                           /\ s.completed_at = 2

---------------------------------------------------------------------------
(* Specifications *)

\* mesocycle_instances before the first request of a behaviour: the user's
\* first block, which was started and then marked completed, the second
\* block, started after that, and a block of another user
InstanceRows ==
    {[id |-> 1, user_id |-> 1, mesocycle_template_id |-> 1,
      status |-> "completed", end_date |-> Today],
     [id |-> 2, user_id |-> 1, mesocycle_template_id |-> 1,
      status |-> "active", end_date |-> Null],
     [id |-> 3, user_id |-> 2, mesocycle_template_id |-> 3,
      status |-> "active", end_date |-> Null]}

Init ==
    /\ sessions = {}
    /\ sets = {}
    /\ last = [op |-> "none", result |-> 0]
    /\ steps = 0
    /\ call = NoCall
    /\ tx = NoTx
    /\ instances = InstanceRows
    /\ inflight = {}

GetStep ==
    steps < MaxOps /\ \E u \in Users, s \in ReadIdArgs : GetWorkoutSession(u, s)

UpdateSessionStep ==
    steps < MaxOps /\ \E u \in Users, s \in SessionIdArgs, st \in Statuses :
        UpdateWorkoutSession(u, s, st)

DeleteSessionStep ==
    steps < MaxOps /\ \E u \in Users, s \in SessionIdArgs : DeleteWorkoutSession(u, s)

AddWorkoutSetStep ==
    steps < MaxOps /\ \E u \in Users, s \in SessionIdArgs, b \in SetCreateBodies :
        AddWorkoutSet(u, s, b)

UpdateWorkoutSetStep ==
    steps < MaxOps /\ \E u \in Users, s \in SessionIdArgs, b \in SetUpdateBodies :
        \E i \in SetIdArgs(s) : UpdateWorkoutSet(u, s, i, b)

DeleteWorkoutSetStep ==
    steps < MaxOps /\ \E u \in Users, s \in SessionIdArgs :
        \E i \in SetIdArgs(s) : DeleteWorkoutSet(u, s, i)

SwapExerciseStep ==
    steps < MaxOps /\ \E u \in Users, s \in SessionIdArgs :
        \E old \in ExerciseIds, new \in ExerciseIds : SwapExercise(u, s, old, new)

RemoveExerciseStep ==
    steps < MaxOps /\ \E u \in Users, s \in SessionIdArgs, e \in ExerciseIds :
        RemoveExercise(u, s, e)

AddExerciseStep ==
    steps < MaxOps /\ \E u \in Users, s \in SessionIdArgs, e \in ExerciseIds :
        AddExercise(u, s, e)

AddSetStep ==
    steps < MaxOps /\ \E u \in Users, s \in SessionIdArgs, e \in ExerciseIds :
        AddSetToExercise(u, s, e)

RemoveSetStep ==
    steps < MaxOps /\ \E u \in Users, s \in SessionIdArgs, e \in ExerciseIds :
        RemoveSetFromExercise(u, s, e)

\* The whole API
Next ==
    \/ CreateStep(CreateRequests)
    \/ GetStep
    \/ UpdateSessionStep
    \/ DeleteSessionStep
    \/ AddWorkoutSetStep
    \/ UpdateWorkoutSetStep
    \/ DeleteWorkoutSetStep
    \/ SwapExerciseStep
    \/ RemoveExerciseStep
    \/ AddExerciseStep
    \/ AddSetStep
    \/ RemoveSetStep

Spec == Init /\ [][Next]_vars

\* Session creation in every shape, after the previous or source session
\* was logged and reshaped
NextGen ==
    \/ CreateStep(CreateRequests)
    \/ UpdateWorkoutSetStep
    \/ SwapExerciseStep
    \/ AddSetStep
    \/ RemoveSetStep

SpecGen == Init /\ [][NextGen]_vars

\* Every endpoint, on sessions created from the template
NextMut ==
    \/ CreateStep(PlainRequests)
    \/ GetStep
    \/ UpdateSessionStep
    \/ DeleteSessionStep
    \/ AddWorkoutSetStep
    \/ UpdateWorkoutSetStep
    \/ DeleteWorkoutSetStep
    \/ SwapExerciseStep
    \/ RemoveExerciseStep
    \/ AddExerciseStep
    \/ AddSetStep
    \/ RemoveSetStep

SpecMut == Init /\ [][NextMut]_vars

\* Session creation in every shape and the five exercise operations
NextNum ==
    \/ CreateStep(CreateRequests)
    \/ SwapExerciseStep
    \/ RemoveExerciseStep
    \/ AddExerciseStep
    \/ AddSetStep
    \/ RemoveSetStep

SpecNum == Init /\ [][NextNum]_vars

\* Reading sessions: the database after POST week 1 and POST week 2 of the
\* first block's day 1 (template 1), then logging, status changes, deletes
\* and reads
InitRead ==
    /\ sessions =
         {[id |-> w, user_id |-> 1, mesocycle_instance_id |-> 1,
           workout_template_id |-> 1, week_number |-> w, day_number |-> 1,
           status |-> "in_progress", completed_at |-> Null] : w \in {1, 2}}
    /\ sets = Week1Created \cup Week2Created
    /\ last = [op |-> "create_workout_session", result |-> 201, session_id |-> 2,
               source_instance_id |-> Null, source_week_number |-> Null]
    /\ steps = 0
    /\ call = NoCall
    /\ tx = NoTx
    /\ instances = InstanceRows
    /\ inflight = {}

\* Logging as the reads need it: the first set of each exercise
FirstSetIds(session_id) ==
    {w.id : w \in {v \in SetsOf(sets, session_id) : v.set_number = 1}}

LogFirstSetStep ==
    steps < MaxOps /\ \E u \in Users, s \in SessionIdArgs, b \in SetUpdateBodies :
        \E i \in FirstSetIds(s) : UpdateWorkoutSet(u, s, i, b)

NextRead ==
    \/ GetStep
    \/ LogFirstSetStep
    \/ UpdateSessionStep
    \/ DeleteSessionStep

SpecRead == InitRead /\ [][NextRead]_vars

\* Requests served one write at a time
NextTx ==
    \/ TxCreate
    \/ TxAddExercise
    \/ TxSwapExercise
    \/ TxRemoveExercise
    \/ TxWrite
    \/ TxCommit
    \/ TxRollback

SpecTx == Init /\ [][NextTx]_vars

StartInstanceStep ==
    steps < MaxOps /\ \E u \in Users, m \in MesocycleIds :
        StartMesocycleInstance(u, m)

UpdateInstanceStep ==
    steps < MaxOps /\ \E u \in Users, i \in InstanceIdArgs, b \in InstanceUpdateBodies :
        UpdateMesocycleInstance(u, i, b)

DeleteInstanceStep ==
    steps < MaxOps /\ \E u \in Users, i \in InstanceIdArgs :
        DeleteMesocycleInstance(u, i)

\* The blocks of a user and the sessions created in them
NextInst ==
    \/ StartInstanceStep
    \/ UpdateInstanceStep
    \/ DeleteInstanceStep
    \/ CreateStep(PlainRequests)

SpecInst == Init /\ [][NextInst]_vars

\* Session creation over missing references, after sets were added or removed
NextTol ==
    \/ CreateStep(ToleranceRequests)
    \/ AddSetStep
    \/ RemoveSetStep
    \/ DeleteSessionStep

SpecTol == Init /\ [][NextTol]_vars

\* One more session than the two the behaviour starts with
CreateLaterWeekStep ==
    /\ steps < MaxOps
    /\ Cardinality(sessions) <= MaxSessions
    /\ \E user_id \in Users, r \in PrevRequests :
        CreateWorkoutSession(user_id, r.instance_id, r.template_id, r.week_number,
                             r.day_number, r.source[1], r.source[2])

\* Later weeks created and read after weeks 1 and 2 were logged or deleted
NextPrev ==
    \/ CreateLaterWeekStep
    \/ GetStep
    \/ LogFirstSetStep
    \/ DeleteSessionStep

SpecPrev == InitRead /\ [][NextPrev]_vars

\* Session creation with and without a source reference, after logging
NextSrc ==
    \/ CreateStep(SourceRequests)
    \/ LogFirstSetStep

SpecSrc == Init /\ [][NextSrc]_vars

\* Weeks 1 and 2 of one day, with exercises swapped, added and removed
NextLineup ==
    \/ CreateStep(PlainRequests)
    \/ SwapExerciseStep
    \/ RemoveExerciseStep
    \/ AddExerciseStep

SpecLineup == Init /\ [][NextLineup]_vars

\* Sessions from the template and overlapping add-set and add-exercise
\* requests
NextConc ==
    \/ CreateStep(PlainRequests)
    \/ AddSetRead
    \/ AddExerciseRead
    \/ WriteAndCommit

SpecConc == Init /\ [][NextConc]_vars

\* The database after POST week 1 of the first block's day 1 (template 1)
\* and a swap of Biceps for Chest in it
InitAgree ==
    /\ sessions =
         {[id |-> 1, user_id |-> 1, mesocycle_instance_id |-> 1,
           workout_template_id |-> 1, week_number |-> 1, day_number |-> 1,
           status |-> "in_progress", completed_at |-> Null]}
    /\ sets = {IF w.exercise_id = 2 THEN SwappedSet(w, 1) ELSE w :
                 w \in Week1Created}
    /\ last = [op |-> "swap_exercise", result |-> 200, session_id |-> 1,
               old_exercise_id |-> 2, new_exercise_id |-> 1]
    /\ steps = 0
    /\ call = NoCall
    /\ tx = NoTx
    /\ instances = InstanceRows
    /\ inflight = {}

\* Logging, the next week's creation and reads
NextAgree ==
    \/ LogFirstSetStep
    \/ CreateStep(PlainRequests)
    \/ GetStep

SpecAgree == InitAgree /\ [][NextAgree]_vars

NextPure ==
    \/ CallGetSetsForWeek
    \/ CallProjectWeight

SpecPure == Init /\ [][NextPure]_vars

=============================================================================
